---- MODULE Spec2Model ----
(***************************************************************************)
(* A model of raspimcu: device discovery and classification                *)
(* (src/lib/index.js), the mount-scoped path resolution                    *)
(* (src/lib/fileTransfer.js) and the pure helpers they rest on.            *)
(*                                                                         *)
(* JavaScript strings are sequences of one-character strings, so that      *)
(* prefix tests, case folding, regular-expression searches and splitting   *)
(* are computed character by character, as the code computes them.         *)
(* JavaScript values that may be undefined, null, a number or a string are *)
(* tagged records (Undef, Null, Num(n), Str(s)).                           *)
(***************************************************************************)
EXTENDS Integers, Sequences, FiniteSets, TLC

VARIABLES
  pc,      \* position of the call under study: "call" before, "done" after
  args,    \* the arguments of the call (a record)
  ret,     \* what the call returned or threw
  serialPortModulePromise,  \* index.js:16, the module-level cache of the import
  ports,   \* the host: what SerialPort.list() yields (a listing or a failure)
  fs,      \* the host: the nodes of the filesystem, by path
  execaCalls  \* the external processes started: the calls of execa, in order

vars == <<pc, args, ret, serialPortModulePromise, ports, fs, execaCalls>>

hostVars == <<serialPortModulePromise, ports, fs, execaCalls>>

-----------------------------------------------------------------------------
(* JavaScript values *)

Undef == [t |-> "undefined"]

Null == [t |-> "null"]

Str(s) == [t |-> "string", s |-> s]

Num(n) == [t |-> "number", n |-> n]

\* JavaScript truthiness of a tagged value.
Truthy(v) ==
  CASE v.t = "undefined" -> FALSE
    [] v.t = "null" -> FALSE
    [] v.t = "string" -> Len(v.s) > 0
    [] v.t = "number" -> v.n /= 0
    [] v.t = "false" -> FALSE
    [] OTHER -> TRUE

\* What a call produced: a returned value or a thrown error.
Returned(v) == [thrown |-> FALSE, val |-> v]

Thrown(m) == [thrown |-> TRUE, msg |-> m]

Pending == [thrown |-> FALSE, val |-> [t |-> "pending"]]

-----------------------------------------------------------------------------
(* Strings as character sequences *)

LowerLetters ==
  <<"a","b","c","d","e","f","g","h","i","j","k","l","m",
    "n","o","p","q","r","s","t","u","v","w","x","y","z">>

UpperLetters ==
  <<"A","B","C","D","E","F","G","H","I","J","K","L","M",
    "N","O","P","Q","R","S","T","U","V","W","X","Y","Z">>

Digits == <<"0","1","2","3","4","5","6","7","8","9">>

IsIn(c, seq) == \E i \in 1..Len(seq) : seq[i] = c

IndexIn(c, seq) == CHOOSE i \in 1..Len(seq) : seq[i] = c

\* The case mappings of the letters, as tables.
UpperOf == [c \in {LowerLetters[i] : i \in 1..Len(LowerLetters)} |-> UpperLetters[IndexIn(c, LowerLetters)]]

LowerOf == [c \in {UpperLetters[i] : i \in 1..Len(UpperLetters)} |-> LowerLetters[IndexIn(c, UpperLetters)]]

toUpperChar(c) == IF c \in DOMAIN UpperOf THEN UpperOf[c] ELSE c

toLowerChar(c) == IF c \in DOMAIN LowerOf THEN LowerOf[c] ELSE c

toUpperCase(s) == [i \in 1..Len(s) |-> toUpperChar(s[i])]

toLowerCase(s) == [i \in 1..Len(s) |-> toLowerChar(s[i])]

startsWith(s, p) == Len(p) <= Len(s) /\ SubSeq(s, 1, Len(p)) = p

\* The part of s from position i (1-based) to the end.
From(s, i) == SubSeq(s, i, Len(s))

\* \s of a JavaScript regular expression and the characters trim() removes,
\* as far as they occur in the texts of this model.
IsSpace(c) == c \in {" ", "\t", "\r", "\n"}

RECURSIVE trimStart(_)
trimStart(s) == IF Len(s) > 0 /\ IsSpace(s[1]) THEN trimStart(Tail(s)) ELSE s

RECURSIVE trimEnd(_)
trimEnd(s) ==
  IF Len(s) > 0 /\ IsSpace(s[Len(s)]) THEN trimEnd(SubSeq(s, 1, Len(s) - 1)) ELSE s

trim(s) == trimEnd(trimStart(s))

\* The concatenation of a sequence of strings.
RECURSIVE Concat(_)
Concat(ss) == IF ss = <<>> THEN <<>> ELSE Head(ss) \o Concat(Tail(ss))

\* s.split(sep) for a one-character separator: the pieces between separators.
RECURSIVE SplitAt(_, _, _)
SplitAt(s, sep, cur) ==
  IF s = <<>> THEN <<cur>>
  ELSE IF Head(s) = sep THEN <<cur>> \o SplitAt(Tail(s), sep, <<>>)
  ELSE SplitAt(Tail(s), sep, Append(cur, Head(s)))

Split(s, sep) == SplitAt(s, sep, <<>>)

\* pieces.join(sep)
RECURSIVE Join(_, _)
Join(pieces, sep) ==
  IF pieces = <<>> THEN <<>>
  ELSE IF Len(pieces) = 1 THEN Head(pieces)
  ELSE Head(pieces) \o <<sep>> \o Join(Tail(pieces), sep)

-----------------------------------------------------------------------------
(* path.resolve of Node.js (posix): the last absolute argument and what     *)
(* follows it, or the working directory and all arguments, normalized.      *)

Slash == "/"

Dot == <<".">>

DotDot == <<".", ".">>

isAbsolute(p) == Len(p) > 0 /\ p[1] = Slash

\* normalizeString: "" and "." segments are dropped, ".." removes the segment
\* before it and is dropped at the root (allowAboveRoot is false for an
\* absolute path).
RECURSIVE normalizeSegments(_, _)
normalizeSegments(segs, acc) ==
  IF segs = <<>> THEN acc
  ELSE LET h == Head(segs) IN
    IF h = <<>> \/ h = Dot THEN normalizeSegments(Tail(segs), acc)
    ELSE IF h = DotDot
      THEN normalizeSegments(Tail(segs),
             IF acc = <<>> THEN acc ELSE SubSeq(acc, 1, Len(acc) - 1))
    ELSE normalizeSegments(Tail(segs), Append(acc, h))

\* The normalized segments of an absolute path string.
segmentsOf(p) == normalizeSegments(Split(p, Slash), <<>>)

\* The path string of a list of segments: "/" for none.
pathOf(segs) == <<Slash>> \o Join(segs, Slash)

\* path.resolve(b) with the working directory cwd (absolute).
pathResolve1(cwd, b) ==
  IF isAbsolute(b) THEN pathOf(segmentsOf(b))
  ELSE pathOf(segmentsOf(cwd \o <<Slash>> \o b))

\* path.resolve(a, b) with the working directory cwd (absolute).
pathResolve2(cwd, a, b) ==
  IF isAbsolute(b) THEN pathOf(segmentsOf(b))
  ELSE pathResolve1(cwd, a \o <<Slash>> \o b)

-----------------------------------------------------------------------------
(* fileTransfer.js: resolveWithinMount *)

EscapesMsg == "escapes the mount point"

\* The comparison the mount check makes (fileTransfer.js:20).
MountTestFails(normalizedResolved, normalizedMount) ==
  ~ startsWith(normalizedResolved, normalizedMount)

\* resolveWithinMount(mountPoint, targetPath = '.') on the given platform, run
\* in the working directory cwd. targetPath is a tagged value: undefined takes
\* the default.
resolveWithinMount(platform, cwd, mountPoint, targetPath) ==
  LET target == IF targetPath.t = "undefined" THEN Dot ELSE targetPath.s
      absoluteMount == pathResolve1(cwd, mountPoint)
      resolvedPath == pathResolve2(cwd, absoluteMount, target)
      normalizedMount ==
        IF platform = "win32" THEN toLowerCase(absoluteMount) ELSE absoluteMount
      normalizedResolved ==
        IF platform = "win32" THEN toLowerCase(resolvedPath) ELSE resolvedPath
  IN IF MountTestFails(normalizedResolved, normalizedMount)
       THEN Thrown(EscapesMsg)
       ELSE Returned(Str(resolvedPath))

-----------------------------------------------------------------------------
(* The inputs of the path checks *)

S_mnt == <<"m","n","t">>

S_pico == <<"p","i","c","o">>

S_Pico == <<"P","i","c","o">>

S_pico2 == <<"p","i","c","o","2">>

S_esc == <<"e","s","c">>

S_escape_txt == <<"e","s","c","a","p","e",".","t","x","t">>

S_x == <<"x">>

S_etc == <<"e","t","c">>

\* '../escape.txt': a target one level above the mount, as '../outside.txt'
\* of firmware.test.js:140.
EscapeTarget == Join(<<DotDot, S_escape_txt>>, Slash)

\* '../pico2/x': a sibling directory whose name begins with the mount's name.
SiblingTarget == Join(<<DotDot, S_pico2, S_x>>, Slash)

\* Mount paths as callers write them: the root, absolute paths (one with a
\* trailing slash), and relative ones.
MountPaths ==
  { <<Slash>>,
    pathOf(<<S_mnt, S_pico>>),
    pathOf(<<S_mnt, S_pico>>) \o <<Slash>>,
    pathOf(<<S_mnt, S_Pico>>),
    pathOf(<<S_mnt, S_esc>>),
    pathOf(<<S_mnt>>),
    S_pico,
    Join(<<S_mnt, S_esc>>, Slash),
    Dot }

WorkingDirs == { <<Slash>>, pathOf(<<S_mnt>>), pathOf(<<S_mnt, S_pico>>) }

TargetPaths ==
  { Undef,
    Str(Dot),
    Str(S_x),
    Str(Join(<<S_pico, S_x>>, Slash)),
    Str(EscapeTarget),
    Str(SiblingTarget),
    Str(DotDot),
    Str(Join(<<DotDot, DotDot, DotDot>>, Slash)),
    Str(Join(<<DotDot, S_pico, S_x>>, Slash)),
    Str(Join(<<DotDot, S_Pico, S_x>>, Slash)),
    Str(Join(<<S_x, DotDot, S_pico2>>, Slash)),
    Str(pathOf(<<S_etc>>)),
    Str(pathOf(<<S_mnt, S_pico, S_x>>)),
    Str(pathOf(<<S_mnt, S_pico2>>)) }

Platforms == {"linux", "win32"}

PathArgs ==
  [op : {"resolveWithinMount"}, platform : Platforms, cwd : WorkingDirs,
   mountPoint : MountPaths, targetPath : TargetPaths]

\* The host of the calls that touch no device and no file.
IdleHost ==
  /\ serialPortModulePromise = "unset"
  /\ ports = [ok |-> TRUE, list |-> <<>>]
  /\ fs = <<>>
  /\ execaCalls = <<>>

InitPath ==
  /\ pc = "call"
  /\ args \in PathArgs
  /\ ret = Pending
  /\ IdleHost

ResolveWithinMountCall ==
  /\ pc = "call"
  /\ args.op = "resolveWithinMount"
  /\ ret' = resolveWithinMount(args.platform, args.cwd, args.mountPoint, args.targetPath)
  /\ pc' = "done"
  /\ UNCHANGED <<args, hostVars>>

NextPath == ResolveWithinMountCall

SpecPath == InitPath /\ [][NextPath]_vars

-----------------------------------------------------------------------------
(* index.js: normalizeHex, normalizeVendorId *)

HexLower == <<"0","1","2","3","4","5","6","7","8","9","a","b","c","d","e","f">>

HexUpper == <<"0","1","2","3","4","5","6","7","8","9","A","B","C","D","E","F">>

\* The width padStart pads to (index.js:43 and :45).
HexWidth == 4

\* Number.prototype.toString(16) of a non-negative integer.
RECURSIVE toString16(_)
toString16(n) ==
  IF n < 16 THEN <<HexLower[n + 1]>>
  ELSE toString16(n \div 16) \o <<HexLower[(n % 16) + 1]>>

\* s.padStart(width, pad) for a one-character pad.
RECURSIVE padStart(_, _, _)
padStart(s, width, pad) ==
  IF Len(s) >= width THEN s ELSE padStart(<<pad>> \o s, width, pad)

\* s.replace(/^0x/i, '')
stripHexPrefix(s) ==
  IF Len(s) >= 2 /\ s[1] = "0" /\ s[2] \in {"x", "X"} THEN From(s, 3) ELSE s

normalizeHex_nocase(value) ==
  CASE value.t \in {"undefined", "null"} -> Undef
    [] value.t = "number" -> Str(padStart(toString16(value.n), HexWidth, "0"))
    [] OTHER -> Str(padStart(stripHexPrefix(value.s), HexWidth, "0"))

normalizeHex(value) ==
  CASE value.t \in {"undefined", "null"} -> Undef
    [] value.t = "number" ->
         Str(padStart(toUpperCase(toString16(value.n)), HexWidth, "0"))
    [] OTHER ->
         Str(padStart(toUpperCase(stripHexPrefix(value.s)), HexWidth, "0"))

normalizeVendorId(value) ==
  IF value.t \in {"undefined", "null"} THEN Undef ELSE normalizeHex(value)

\* The hexadecimal digits the inputs are written with, and their values.
HexChars == {"0", "2", "8", "a", "A", "e", "E"}

HexDigitValues == {0, 2, 8, 10, 14}

\* Hex strings of one to HexWidth digits, bare or with a 0x / 0X prefix.
HexStrings == UNION { [1..n -> HexChars] : n \in 1..HexWidth }

HexPrefixes == { <<>>, <<"0","x">>, <<"0","X">> }

\* The 16-bit numbers whose digits are among HexDigitValues.
HexNumbers ==
  { ((d[1] * 16 + d[2]) * 16 + d[3]) * 16 + d[4] : d \in [1..HexWidth -> HexDigitValues] }

HexInputs ==
  { Num(n) : n \in HexNumbers }
    \cup { Str(p \o h) : p \in HexPrefixes, h \in HexStrings }

InitHex ==
  /\ pc = "call"
  /\ args \in [op : {"normalizeHex"}, value : HexInputs]
  /\ ret = Pending
  /\ IdleHost

NormalizeHexCall ==
  /\ pc = "call"
  /\ args.op = "normalizeHex"
  /\ ret' = Returned(normalizeVendorId(args.value))
  /\ pc' = "done"
  /\ UNCHANGED <<args, hostVars>>

NextHex == NormalizeHexCall

SpecHex == InitHex /\ [][NextHex]_vars

-----------------------------------------------------------------------------
(* index.js: extractInfoValue *)

NL == "\n"

Colon == ":"

\* The first position at which the regular expression `${key}:` matches in
\* text, compared case-insensitively (flag i); 0 when there is none. The
\* expression is not anchored: it is searched through the whole text.
keyMatchesAt(text, key, i) ==
  /\ i + Len(key) <= Len(text)
  /\ toLowerCase(SubSeq(text, i, i + Len(key))) = toLowerCase(key \o <<Colon>>)

RECURSIVE findKeyFrom(_, _, _)
findKeyFrom(text, key, i) ==
  IF i > Len(text) THEN 0
  ELSE IF keyMatchesAt(text, key, i) THEN i
  ELSE findKeyFrom(text, key, i + 1)

findKey(text, key) == findKeyFrom(text, key, 1)

\* The longest prefix of s without the character c ([^c]*).
RECURSIVE upTo(_, _)
upTo(s, c) ==
  IF s = <<>> \/ Head(s) = c THEN <<>> ELSE <<Head(s)>> \o upTo(Tail(s), c)

\* The second element of m.split(/:\s*/), where m holds a ':': what follows
\* the first ':' and the whitespace after it, up to the next ':'.
secondOfSplit(m) ==
  LET first == upTo(m, Colon)
      afterColon == From(m, Len(first) + 2)
  IN upTo(trimStart(afterColon), Colon)

extractInfoValue(infoContents, key) ==
  IF infoContents = <<>> THEN Undef
  ELSE LET i == findKey(infoContents, key) IN
    IF i = 0 THEN Undef
    ELSE LET match0 == upTo(From(infoContents, i), NL)
             value == secondOfSplit(match0)
         IN IF value = <<>> THEN Undef ELSE Str(trim(value))

S_BoardID == <<"B","o","a","r","d","-","I","D">>

S_Model == <<"M","o","d","e","l">>

\* Info texts are built of up to MaxChunks pieces: the two keys (one also in
\* another case), the separators and a letter.
MaxChunks == 5

InfoChunks ==
  { S_Model, toUpperCase(S_Model), S_BoardID, <<Colon>>, <<" ">>, <<NL>>, <<"a">> }

InfoTexts == { Concat(c) : c \in UNION { [1..n -> InfoChunks] : n \in 0..MaxChunks } }

InitInfo ==
  /\ pc = "call"
  /\ args \in [op : {"extractInfoValue"}, text : InfoTexts, key : {S_BoardID, S_Model}]
  /\ ret = Pending
  /\ IdleHost

ExtractInfoValueCall ==
  /\ pc = "call"
  /\ args.op = "extractInfoValue"
  /\ ret' = Returned(extractInfoValue(args.text, args.key))
  /\ pc' = "done"
  /\ UNCHANGED <<args, hostVars>>

NextInfo == ExtractInfoValueCall

SpecInfo == InitInfo /\ [][NextInfo]_vars

-----------------------------------------------------------------------------
(* The filesystem as the probes see it. A node is what one path holds:      *)
(*   stat  "none" (ENOENT), "error" (stat fails otherwise), "file", "dir"   *)
(*   info  INFO_UF2.TXT in a directory: "absent", "unreadable" (it exists   *)
(*         and readFile fails), "text" (readable, with the content text)    *)
(*   index whether the directory holds INDEX.HTM                            *)
(*   list  whether readdir of the directory succeeds                        *)

Node(stat, info, text, index, list) ==
  [stat |-> stat, info |-> info, text |-> text, index |-> index, list |-> list]

NoNode == Node("none", "absent", <<>>, FALSE, FALSE)

\* fs.stat: rejects for a missing or inaccessible path.
fsStat(node) ==
  IF node.stat \in {"none", "error"} THEN Thrown("stat failed")
  ELSE Returned([isDirectory |-> node.stat = "dir"])

\* fs.pathExists of INFO_UF2.TXT and of INDEX.HTM under a path: never rejects.
infoFileExists(node) == node.stat = "dir" /\ node.info /= "absent"

indexFileExists(node) == node.stat = "dir" /\ node.index

\* fs.readFile(infoFile, 'utf8')
readInfo(node) ==
  IF node.stat = "dir" /\ node.info = "text" THEN Returned(node.text)
  ELSE Thrown("read failed")

-----------------------------------------------------------------------------
(* index.js: isBoardStorage *)

\* A string constant of the source, kept whole.
Lit(text) == [t |-> "literal", text |-> text]

FsFallbackLabel == Lit("Raspberry Pi MCU (filesystem mode)")

S_storage_colon == <<"s","t","o","r","a","g","e",":">>

False == [t |-> "false"]

\* a || b || c on tagged values
OrElse(a, b) == IF Truthy(a) THEN a ELSE b

\* The marker test of index.js:108.
hasNoMarker_and(node) == ~ infoFileExists(node) \/ ~ indexFileExists(node)

hasNoMarker(node) == ~ infoFileExists(node) /\ ~ indexFileExists(node)

\* isBoardStorage(volumePath), where node is what the filesystem holds at
\* volumePath. The result is a returned value: false or a device.
isBoardStorage(volumePath, node) ==
  LET stats == fsStat(node) IN
  IF stats.thrown THEN Returned(False)                  \* catch, index.js:102
  ELSE IF ~ stats.val.isDirectory THEN Returned(False)
  ELSE IF hasNoMarker(node) THEN Returned(False)
  ELSE
    LET read == IF infoFileExists(node) THEN readInfo(node) ELSE Returned(<<>>)
        infoContents == IF read.thrown THEN <<>> ELSE read.val   \* catch, :116
        boardId == extractInfoValue(infoContents, S_BoardID)
        model == extractInfoValue(infoContents, S_Model)
    IN Returned(
         [ t |-> "object",
           id |-> Str(S_storage_colon \o volumePath),
           type |-> Str(<<"s","t","o","r","a","g","e">>),
           status |-> Lit("fs"),
           mountPoint |-> Str(volumePath),
           boardId |-> boardId,
           model |-> model,
           infoFile |-> IF trim(infoContents) = <<>> THEN Undef
                        ELSE Str(trim(infoContents)),
           description |-> OrElse(model, OrElse(boardId, FsFallbackLabel)) ])

\* The info texts of the probed volumes: a Pico in BOOTSEL mode, the same with
\* CR LF line ends and no model, another vendor's board, a text without keys,
\* an empty file, and a text whose values hold ':'.
S_RPI_RP2 == <<"R","P","I","-","R","P","2">>

S_SAMD21 == <<"S","A","M","D","2","1">>

T_pico ==
  S_BoardID \o <<Colon, " ">> \o S_RPI_RP2 \o <<NL>>
    \o S_Model \o <<Colon, " ">> \o S_Pico \o <<NL>>

T_picoCrLf == <<"U","F","2","\r",NL>> \o S_BoardID \o <<Colon, " ">> \o S_RPI_RP2 \o <<"\r",NL>>

T_samd == S_BoardID \o <<Colon, " ">> \o S_SAMD21 \o <<NL>>

T_nokeys == <<"U","F","2",NL>>

T_colons == S_Model \o <<Colon, " ", "A", Colon, "B", NL>>

ProbeTexts == { T_pico, T_picoCrLf, T_samd, T_nokeys, <<>>, <<" ", NL>>, T_colons }

ProbeNodes ==
  { NoNode, Node("error", "absent", <<>>, FALSE, FALSE), Node("file", "absent", <<>>, FALSE, FALSE) }
    \cup { Node("dir", i, <<>>, x, l) :
             i \in {"absent", "unreadable"}, x \in BOOLEAN, l \in BOOLEAN }
    \cup { Node("dir", "text", txt, x, l) :
             txt \in ProbeTexts, x \in BOOLEAN, l \in BOOLEAN }

ProbePaths == { pathOf(<<S_mnt>>), pathOf(<<S_mnt, S_pico>>), <<Slash>> }

InitProbe ==
  /\ pc = "call"
  /\ args \in [op : {"isBoardStorage"}, volumePath : ProbePaths, node : ProbeNodes]
  /\ ret = Pending
  /\ IdleHost

IsBoardStorageCall ==
  /\ pc = "call"
  /\ args.op = "isBoardStorage"
  /\ ret' = isBoardStorage(args.volumePath, args.node)
  /\ pc' = "done"
  /\ UNCHANGED <<args, hostVars>>

NextProbe == IsBoardStorageCall

SpecProbe == InitProbe /\ [][NextProbe]_vars

-----------------------------------------------------------------------------
(* index.js: the classification, isRp2040Device and filterRp2040Devices *)

\* RASPBERRY_PI_VENDOR_IDS (index.js:27)
RASPBERRY_PI_VENDOR_IDS == { <<"2","E","8","A">> }

S_serial == <<"s","e","r","i","a","l">>

S_storage == <<"s","t","o","r","a","g","e">>

\* \w of a regular expression
IsWordChar(c) ==
  c \in DOMAIN UpperOf \/ c \in DOMAIN LowerOf \/ IsIn(c, Digits) \/ c = "_"

\* Whether the literal lit (given in upper case) occurs in s at position i,
\* compared case-insensitively.
litAt(s, i, lit) ==
  /\ i >= 1
  /\ i + Len(lit) - 1 <= Len(s)
  /\ toUpperCase(SubSeq(s, i, i + Len(lit) - 1)) = lit

\* /RP2040/i
testRP2040(s) == \E i \in 1..Len(s) : litAt(s, i, <<"R","P","2","0","4","0">>)

\* /RPI[-_ ]?RP2/i
testRPI_RP2(s) ==
  \E i \in 1..Len(s) :
    /\ litAt(s, i, <<"R","P","I">>)
    /\ \/ litAt(s, i + 3, <<"R","P","2">>)
       \/ /\ i + 3 <= Len(s)
          /\ s[i + 3] \in {"-", "_", " "}
          /\ litAt(s, i + 4, <<"R","P","2">>)

\* /\bPICO\b/i: a word boundary lies between a word character and a
\* non-word character or an end of the string.
testPICO(s) ==
  \E i \in 1..Len(s) :
    /\ litAt(s, i, <<"P","I","C","O">>)
    /\ (i = 1 \/ ~ IsWordChar(s[i - 1]))
    /\ (i + 4 > Len(s) \/ ~ IsWordChar(s[i + 4]))

\* RP2040_STORAGE_HINTS.some((regex) => regex.test(value)), index.js:30-34
matchesStorageHint(s) == testRP2040(s) \/ testRPI_RP2(s) \/ testPICO(s)

isRp2040StorageDevice_bare(device) ==
  \/ \A value \in {device.boardId, device.model, device.infoFile} : value = Undef
  \/ \E value \in {device.boardId, device.model, device.infoFile} :
       value.t = "string" /\ matchesStorageHint(value.s)

isRp2040StorageDevice(device) ==
  \E value \in {device.boardId, device.model, device.infoFile} :
    value.t = "string" /\ matchesStorageHint(value.s)

isRp2040Device_anyVendor(device) ==
  IF device.t /= "object" THEN FALSE
  ELSE IF device.type = Str(S_serial) THEN TRUE
  ELSE IF device.type = Str(S_storage) THEN isRp2040StorageDevice(device)
  ELSE FALSE

\* isRp2040Device(device): device is null, undefined, a number, a string or
\* an object; of the falsy or non-object ones none is a device.
isRp2040Device(device) ==
  IF device.t /= "object" THEN FALSE
  ELSE IF device.type = Str(S_serial)
    THEN LET vendorId == normalizeVendorId(device.vendorId)
         IN Truthy(vendorId) /\ vendorId.s \in RASPBERRY_PI_VENDOR_IDS
  ELSE IF device.type = Str(S_storage) THEN isRp2040StorageDevice(device)
  ELSE FALSE

filterRp2040Devices_lenient(devices) == SelectSeq(devices, isRp2040Device_anyVendor)

\* devices.filter((device) => isRp2040Device(device))
RECURSIVE filterRp2040Devices(_)
filterRp2040Devices(devices) ==
  IF devices = <<>> THEN <<>>
  ELSE IF isRp2040Device(Head(devices))
    THEN <<Head(devices)>> \o filterRp2040Devices(Tail(devices))
  ELSE filterRp2040Devices(Tail(devices))

\* The devices handed to the classification: the vendor IDs, board IDs,
\* models and info texts a caller may pass, and values that are no objects.
S_2E8A == <<"2","E","8","A">>

ClassVendorIds ==
  { Undef, Null, Str(S_2E8A), Str(<<"2","e","8","a">>),
    Str(<<"0","x","2","e","8","a">>), Num(11914),
    Str(<<"1","2","3","4">>), Num(4660), Str(<<>>) }

ClassBoardIds ==
  { Undef, Str(S_RPI_RP2), Str(S_SAMD21), Str(<<"r","p","i","_","r","p","2">>),
    Str(<<"R","P","I","R","P","2">>), Str(<<"R","P","I",".","R","P","2">>), Num(1) }

ClassModels ==
  { Undef, Str(<<"P","i"," ","P","i","c","o">>), Str(<<"F","e","a","t","h","e","r">>),
    Str(<<"P","I","C","O","_","W">>), Str(<<"p","i","c","o","-","w">>),
    Str(<<"X","r","p","2","0","4","0","x">>), Str(<<"P","i","c","o","l","o">>) }

ClassInfoFiles == { Undef, Str(trim(T_pico)), Str(trim(T_samd)) }

ClassTypes == { Undef, Str(S_serial), Str(S_storage), Str(<<"u","s","b">>) }

ClassDevices ==
  { Undef, Null, Num(0), Num(7), Str(S_serial) }
    \cup [ t : {"object"}, type : ClassTypes, vendorId : ClassVendorIds,
           boardId : ClassBoardIds, model : ClassModels, infoFile : ClassInfoFiles ]

\* The lists handed to filterRp2040Devices hold up to MaxFilter devices.
MaxFilter == 2

FilterDevices ==
  { Null, Num(7),
    [t |-> "object", type |-> Str(S_serial), vendorId |-> Str(<<"2","e","8","a">>),
     boardId |-> Undef, model |-> Undef, infoFile |-> Undef],
    [t |-> "object", type |-> Str(S_serial), vendorId |-> Undef,
     boardId |-> Undef, model |-> Undef, infoFile |-> Undef],
    [t |-> "object", type |-> Str(S_storage), vendorId |-> Undef,
     boardId |-> Str(S_RPI_RP2), model |-> Undef, infoFile |-> Undef],
    [t |-> "object", type |-> Str(S_storage), vendorId |-> Undef,
     boardId |-> Str(S_SAMD21), model |-> Str(<<"F","e","a","t","h","e","r">>),
     infoFile |-> Undef] }

FilterLists == UNION { [1..n -> FilterDevices] : n \in 0..MaxFilter }

InitClassify ==
  /\ pc = "call"
  /\ \/ args \in [op : {"isRp2040Device"}, device : ClassDevices]
     \/ args \in [op : {"filterRp2040Devices"}, devices : FilterLists]
  /\ ret = Pending
  /\ IdleHost

IsRp2040DeviceCall ==
  /\ pc = "call"
  /\ args.op = "isRp2040Device"
  /\ ret' = Returned(isRp2040Device(args.device))
  /\ pc' = "done"
  /\ UNCHANGED <<args, hostVars>>

FilterRp2040DevicesCall ==
  /\ pc = "call"
  /\ args.op = "filterRp2040Devices"
  /\ ret' = Returned(filterRp2040Devices(args.devices))
  /\ pc' = "done"
  /\ UNCHANGED <<args, hostVars>>

NextClassify == IsRp2040DeviceCall \/ FilterRp2040DevicesCall

SpecClassify == InitClassify /\ [][NextClassify]_vars

-----------------------------------------------------------------------------
(* index.js: loadSerialPort, listSerialPorts *)

\* loadSerialPort: the import runs once per process; what its promise resolves
\* to is cached in serialPortModulePromise: "unset" before the first call,
\* then "module" (the SerialPort class) or "null" (the import failed).
\* importOk is whether the import succeeds if it is made now.
loadSerialPort(cache, importOk) ==
  IF cache = "unset" THEN (IF importOk THEN "module" ELSE "null") ELSE cache

NoModuleMsg == "serialport package is not available"

EnumerateMsg == "Unable to enumerate serial ports"

SerialFallbackLabel == Lit("Raspberry Pi MCU (serial mode)")

S_unknown == <<"u","n","k","n","o","w","n">>

\* The string of a normalized ID, or 'unknown' (index.js:69).
orUnknown(v) == IF Truthy(v) THEN v.s ELSE S_unknown

serialDevice(port) ==
  LET vendorId == normalizeHex(port.vendorId)
      productId == normalizeHex(port.productId)
  IN [ t |-> "object",
       id |-> OrElse(port.path, OrElse(port.pnpId,
                Str(orUnknown(vendorId) \o <<Colon>> \o orUnknown(productId)))),
       type |-> Str(S_serial),
       status |-> Lit("serial"),
       path |-> port.path,
       manufacturer |-> port.manufacturer,
       serialNumber |-> port.serialNumber,
       vendorId |-> vendorId,
       productId |-> productId,
       locationId |-> port.locationId,
       friendlyName |-> port.friendlyName,
       description |-> OrElse(port.friendlyName,
                         OrElse(port.manufacturer, SerialFallbackLabel)) ]

\* The loop of index.js:62-81: a port whose vendor ID is known and is not a
\* Raspberry Pi one is passed over.
RECURSIVE serialDevices(_)
serialDevices(portList) ==
  IF portList = <<>> THEN <<>>
  ELSE LET vendorId == normalizeHex(Head(portList).vendorId) IN
    IF Truthy(vendorId) /\ vendorId.s \notin RASPBERRY_PI_VENDOR_IDS
      THEN serialDevices(Tail(portList))
    ELSE <<serialDevice(Head(portList))>> \o serialDevices(Tail(portList))

\* listSerialPorts(), given what loadSerialPort resolved to and what
\* SerialPort.list() yields.
listSerialPorts(SerialPort, listing) ==
  IF SerialPort /= "module" THEN Thrown(NoModuleMsg)
  ELSE IF ~ listing.ok THEN Thrown(EnumerateMsg)
  ELSE Returned(serialDevices(listing.list))

-----------------------------------------------------------------------------
(* index.js: getDefaultSearchRoots, findMountedBoards, dedupeById *)

S_media == <<"m","e","d","i","a">>

S_run == <<"r","u","n">>

S_Volumes == <<"V","o","l","u","m","e","s">>

WINDOWS_DRIVE_LETTERS == UpperLetters

getDefaultSearchRoots(platform) ==
  IF platform = "darwin" THEN << pathOf(<<S_Volumes>>) >>
  ELSE IF platform = "win32"
    THEN [i \in 1..Len(WINDOWS_DRIVE_LETTERS) |-> <<WINDOWS_DRIVE_LETTERS[i], ":", "\\">>]
  ELSE << pathOf(<<S_media>>), pathOf(<<S_run, S_media>>), pathOf(<<S_mnt>>) >>

\* What the filesystem files holds at a path.
nodeAt(files, p) ==
  LET q == pathOf(segmentsOf(p))
  IN IF isAbsolute(p) /\ q \in DOMAIN files THEN files[q] ELSE NoNode

\* fs.pathExists(p): never rejects.
pathExists(files, p) == nodeAt(files, p).stat \in {"file", "dir"}

\* path.join(root, entry) of an absolute root and an entry name.
pathJoin(root, entry) == pathOf(segmentsOf(root \o <<Slash>> \o entry))

\* fs.readdir(root): the names under root, in the order the host lists them
\* (order, a list of all entry names); rejects when the directory cannot be
\* listed.
RECURSIVE entriesIn(_, _, _)
entriesIn(files, root, order) ==
  IF order = <<>> THEN <<>>
  ELSE IF nodeAt(files, pathJoin(root, Head(order))).stat /= "none"
    THEN <<Head(order)>> \o entriesIn(files, root, Tail(order))
  ELSE entriesIn(files, root, Tail(order))

readdir(files, root, order) ==
  IF nodeAt(files, root).stat = "dir" /\ nodeAt(files, root).list
    THEN Returned(entriesIn(files, root, order))
  ELSE Thrown("readdir failed")

\* The boards among the entries of a root, in listing order (index.js:155-161).
RECURSIVE probeEntries(_, _, _)
probeEntries(files, root, entries) ==
  IF entries = <<>> THEN <<>>
  ELSE LET volumePath == pathJoin(root, Head(entries))
           board == isBoardStorage(volumePath, nodeAt(files, volumePath)).val
       IN (IF board /= False THEN <<board>> ELSE <<>>)
            \o probeEntries(files, root, Tail(entries))

RECURSIVE probeBelow(_, _, _, _)
probeBelow(files, order, root, entries) ==
  IF entries = <<>> THEN <<>>
  ELSE LET dir == pathJoin(root, Head(entries))
       IN probeEntries(files, dir, entriesIn(files, dir, order))
            \o probeBelow(files, order, root, Tail(entries))

scanRoot_deep(files, order, root) ==
  IF ~ pathExists(files, root) THEN <<>>
  ELSE LET stats == fsStat(nodeAt(files, root)) IN
    IF stats.thrown THEN <<>>
    ELSE IF ~ stats.val.isDirectory THEN <<>>
    ELSE LET asBoard == isBoardStorage(root, nodeAt(files, root)).val
             own == IF asBoard /= False THEN <<asBoard>> ELSE <<>>
             entries == readdir(files, root, order)
         IN IF entries.thrown THEN own
            ELSE own \o probeEntries(files, root, entries.val)
                     \o probeBelow(files, order, root, entries.val)

\* The body of the loop over the roots (index.js:139-164): what one root adds
\* to results. An error thrown while the root is scanned ends the scan of that
\* root; what was pushed before it stays.
scanRoot(files, order, root) ==
  IF ~ pathExists(files, root) THEN <<>>
  ELSE LET stats == fsStat(nodeAt(files, root)) IN
    IF stats.thrown THEN <<>>
    ELSE IF ~ stats.val.isDirectory THEN <<>>
    ELSE LET asBoard == isBoardStorage(root, nodeAt(files, root)).val
             own == IF asBoard /= False THEN <<asBoard>> ELSE <<>>
             entries == readdir(files, root, order)
         IN IF entries.thrown THEN own
            ELSE own \o probeEntries(files, root, entries.val)

RECURSIVE scanRoots(_, _, _)
scanRoots(files, order, roots) ==
  IF roots = <<>> THEN <<>>
  ELSE scanRoot(files, order, Head(roots)) \o scanRoots(files, order, Tail(roots))

\* dedupeById: a Map keyed by id keeps the first device of each id, in the
\* order in which the ids were first seen.
RECURSIVE dedupeFrom(_, _)
dedupeFrom(devices, seen) ==
  IF devices = <<>> THEN <<>>
  ELSE IF Head(devices).id \in seen THEN dedupeFrom(Tail(devices), seen)
  ELSE <<Head(devices)>> \o dedupeFrom(Tail(devices), seen \cup {Head(devices).id})

dedupeById(devices) == dedupeFrom(devices, {})

\* findMountedBoards(searchRoots): searchRoots is a list of roots, or a value
\* that cannot be iterated, on which for..of throws a TypeError.
findMountedBoards(files, order, searchRoots) ==
  IF searchRoots.t /= "array" THEN Thrown("searchRoots is not iterable")
  ELSE Returned(dedupeById(scanRoots(files, order, searchRoots.items)))

Arr(items) == [t |-> "array", items |-> items]

-----------------------------------------------------------------------------
(* index.js: listDevices *)

Err(source, r) == [source |-> source, error |-> r.msg]

\* a || b for the searchRoots option: an array is truthy, also an empty one.
rootsOrDefault(searchRoots, platform) ==
  IF searchRoots.t = "array" \/ Truthy(searchRoots) THEN searchRoots
  ELSE Arr(getDefaultSearchRoots(platform))

listDevices_uncaught(cache, listing, files, order, platform, searchRoots) ==
  LET serial == listSerialPorts(cache, listing)
      mounted == findMountedBoards(files, order, rootsOrDefault(searchRoots, platform))
  IN IF mounted.thrown THEN mounted
     ELSE Returned(
       [ devices |-> filterRp2040Devices(
                       (IF serial.thrown THEN <<>> ELSE serial.val) \o mounted.val),
         errors |-> (IF serial.thrown THEN <<Err("serial", serial)>> ELSE <<>>) ])

listDevices_abort(cache, listing, files, order, platform, searchRoots) ==
  LET serial == listSerialPorts(cache, listing)
      mounted == findMountedBoards(files, order, rootsOrDefault(searchRoots, platform))
  IN IF serial.thrown
       THEN Returned([devices |-> <<>>, errors |-> <<Err("serial", serial)>>])
     ELSE IF mounted.thrown
       THEN Returned([devices |-> <<>>, errors |-> <<Err("storage", mounted)>>])
     ELSE Returned([devices |-> filterRp2040Devices(serial.val \o mounted.val),
                    errors |-> <<>>])

listDevices_storageFirst(cache, listing, files, order, platform, searchRoots) ==
  LET serial == listSerialPorts(cache, listing)
      mounted == findMountedBoards(files, order, rootsOrDefault(searchRoots, platform))
      devices1 == IF serial.thrown THEN <<>> ELSE serial.val
      errors1 == IF serial.thrown THEN <<Err("serial", serial)>> ELSE <<>>
      devices2 == IF mounted.thrown THEN devices1 ELSE mounted.val \o devices1
      errors2 == IF mounted.thrown THEN Append(errors1, Err("storage", mounted))
                 ELSE errors1
  IN Returned([devices |-> filterRp2040Devices(devices2), errors |-> errors2])

\* listDevices(options), given what loadSerialPort resolves to in this call.
listDevices(cache, listing, files, order, platform, searchRoots) ==
  LET serial == listSerialPorts(cache, listing)
      mounted == findMountedBoards(files, order, rootsOrDefault(searchRoots, platform))
      devices1 == IF serial.thrown THEN <<>> ELSE serial.val
      errors1 == IF serial.thrown THEN <<Err("serial", serial)>> ELSE <<>>
      devices2 == IF mounted.thrown THEN devices1 ELSE devices1 \o mounted.val
      errors2 == IF mounted.thrown THEN Append(errors1, Err("storage", mounted))
                 ELSE errors1
  IN Returned([devices |-> filterRp2040Devices(devices2), errors |-> errors2])

-----------------------------------------------------------------------------
(* The host of device discovery and the calls of listDevices *)

\* At most MaxAttached things are attached to the host: serial ports and
\* mounted volumes.
MaxAttached == 3

Port(path, pnpId, vendorId, productId, friendlyName) ==
  [ path |-> path, pnpId |-> pnpId, vendorId |-> vendorId, productId |-> productId,
    manufacturer |-> Undef, serialNumber |-> Undef, locationId |-> Undef,
    friendlyName |-> friendlyName ]

\* A Pico on a tty, a port of another vendor, a port that reports no vendor
\* ID, and a port that reports neither a path nor a PnP id.
PortKinds ==
  { Port(Str(<<"t","0">>), Undef, Str(<<"2","e","8","a">>), Str(<<"5">>), Str(S_Pico)),
    Port(Str(<<"t","1">>), Undef, Str(<<"1","2","3","4">>), Undef, Undef),
    Port(Str(<<"t","2">>), Str(<<"p","2">>), Undef, Undef, Undef),
    Port(Undef, Undef, Num(11914), Undef, Undef) }

RootMedia == pathOf(<<S_media>>)

RootMnt == pathOf(<<S_mnt>>)

EntryNames == { <<"a">>, <<"b">> }

ChildPaths == { pathJoin(RootMedia, e) : e \in EntryNames }

FsPaths == { RootMedia, RootMnt } \cup ChildPaths

\* /media and /mnt are directories of the host. A volume may be mounted on
\* one of them: that of a Pico in BOOTSEL mode, or such a volume whose
\* directory cannot be listed.
PlainDir == Node("dir", "absent", <<>>, FALSE, TRUE)

RootNodes ==
  { Node("dir", "text", T_pico, TRUE, TRUE),
    Node("dir", "text", T_pico, TRUE, FALSE) }

\* A volume mounted under /media: that of a Pico, that of another vendor's
\* board, or one with INDEX.HTM alone.
ChildNodes ==
  { Node("dir", "text", T_pico, TRUE, TRUE),
    Node("dir", "text", T_samd, FALSE, TRUE),
    Node("dir", "absent", <<>>, TRUE, TRUE) }

\* The orders in which readdir may list the entry names.
DirOrders == { <<<<"a">>, <<"b">>>>, <<<<"b">>, <<"a">>>> }

\* The searchRoots option and the platform of a call: no option on the posix
\* platforms, and on linux lists of roots (one with a root given twice and a
\* root that is an entry of another) and a number.
CallInputs ==
  { [searchRoots |-> Undef, platform |-> pf] : pf \in {"linux", "darwin"} }
    \cup { [searchRoots |-> r, platform |-> "linux"] :
             r \in { Arr(<<RootMnt, RootMedia>>),
                     Arr(<<RootMedia, pathJoin(RootMedia, <<"a">>), RootMedia>>),
                     Num(7) } }

NoCall == [op |-> "none"]

Unmounted(p) == IF p \in ChildPaths THEN NoNode ELSE PlainDir

Volumes == { p \in FsPaths : fs[p] /= Unmounted(p) }

InitDev ==
  /\ pc = "call"
  /\ args = NoCall
  /\ ret = Pending
  /\ serialPortModulePromise = "unset"
  /\ ports = [ok |-> TRUE, list |-> <<>>]
  /\ fs = [p \in FsPaths |-> Unmounted(p)]
  /\ execaCalls = <<>>

Attached == Len(ports.list) + Cardinality(Volumes)

\* The host changes between calls, while no result is held.
Idle ==
  /\ pc = "call"
  /\ UNCHANGED <<pc, args, ret>>

\* A port is attached. A path names one port: no two attached ports report
\* the same path.
PlugPort ==
  /\ ports.ok
  /\ Attached < MaxAttached
  /\ \E p \in PortKinds :
       /\ p.path = Undef \/ \A k \in 1..Len(ports.list) : ports.list[k].path /= p.path
       /\ ports' = [ports EXCEPT !.list = Append(@, p)]
  /\ Idle
  /\ UNCHANGED <<serialPortModulePromise, fs, execaCalls>>

UnplugPort ==
  /\ Len(ports.list) > 0
  /\ ports' = [ports EXCEPT !.list = SubSeq(@, 1, Len(@) - 1)]
  /\ Idle
  /\ UNCHANGED <<serialPortModulePromise, fs, execaCalls>>

\* SerialPort.list() starts to fail, and yields nothing.
ListingFails ==
  /\ ports.ok
  /\ ports' = [ok |-> FALSE, list |-> <<>>]
  /\ Idle
  /\ UNCHANGED <<serialPortModulePromise, fs, execaCalls>>

ListingRecovers ==
  /\ ~ ports.ok
  /\ ports' = [ok |-> TRUE, list |-> <<>>]
  /\ Idle
  /\ UNCHANGED <<serialPortModulePromise, fs, execaCalls>>

\* A volume is mounted on a root or under /media.
Mount ==
  /\ Attached < MaxAttached
  /\ \E p \in FsPaths \ Volumes :
       \E n \in (IF p \in ChildPaths THEN ChildNodes ELSE RootNodes) :
         fs' = [fs EXCEPT ![p] = n]
  /\ Idle
  /\ UNCHANGED <<serialPortModulePromise, ports, execaCalls>>

Unmount ==
  /\ \E p \in Volumes : fs' = [fs EXCEPT ![p] = Unmounted(p)]
  /\ Idle
  /\ UNCHANGED <<serialPortModulePromise, ports, execaCalls>>

\* Whether the serialport module can be loaded at the time of a call: the
\* host's state, which may change between calls. A module that was loaded
\* stays loadable.
ImportOutcomes == IF serialPortModulePromise = "module" THEN {TRUE} ELSE BOOLEAN

\* The orders in which readdir may list the entries of /media: they differ
\* only when /media holds both entries.
ListingOrders ==
  IF \A c \in ChildPaths : fs[c].stat /= "none" THEN DirOrders
  ELSE { CHOOSE o \in DirOrders : TRUE }

\* One call of listDevices. The host decides, at the call, whether the import
\* of the serialport module succeeds and in which order readdir lists the
\* entries; args records the call's option, the platform, the listing of
\* /media the host gave and whether the module was loadable.
ListDevicesCall ==
  \E in \in CallInputs, importOk \in ImportOutcomes, order \in ListingOrders :
    /\ pc = "call"
    /\ serialPortModulePromise' = loadSerialPort(serialPortModulePromise, importOk)
    /\ ret' = listDevices(serialPortModulePromise', ports, fs, order,
                          in.platform, in.searchRoots)
    /\ args' = [op |-> "listDevices", platform |-> in.platform,
                searchRoots |-> in.searchRoots,
                listing |-> entriesIn(fs, RootMedia, order),
                importable |-> importOk]
    /\ pc' = "done"
    /\ UNCHANGED <<ports, fs, execaCalls>>

\* The default of the searchRoots parameter of findMountedBoards
\* (index.js:136): it applies when the argument is undefined.
rootsParam(searchRoots, platform) ==
  IF searchRoots = Undef THEN Arr(getDefaultSearchRoots(platform)) ELSE searchRoots

\* A call of the exported findMountedBoards, on linux.
FindMountedBoardsCall ==
  \E in \in CallInputs, order \in ListingOrders :
    /\ pc = "call"
    /\ in.platform = "linux"
    /\ ret' = LET r == findMountedBoards(fs, order, rootsParam(in.searchRoots, in.platform))
               IN IF r.thrown THEN r ELSE Returned(Arr(r.val))
    /\ args' = [op |-> "findMountedBoards", platform |-> in.platform,
                searchRoots |-> in.searchRoots,
                listing |-> entriesIn(fs, RootMedia, order)]
    /\ pc' = "done"
    /\ UNCHANGED hostVars

\* The caller consumes the result.
Consume ==
  /\ pc = "done"
  /\ pc' = "call"
  /\ args' = NoCall
  /\ ret' = Pending
  /\ UNCHANGED hostVars

NextDev ==
  \/ Consume
  \/ PlugPort
  \/ UnplugPort
  \/ ListingFails
  \/ ListingRecovers
  \/ Mount
  \/ Unmount
  \/ ListDevicesCall
  \/ FindMountedBoardsCall

SpecDev == InitDev /\ [][NextDev]_vars

-----------------------------------------------------------------------------
(* Claims about resolveWithinMount *)

\* The absolute mount of the call, as a list of directory names, and the list
\* of names of a returned path; on win32 names compare case-insensitively.
FoldNames(platform, p) ==
  segmentsOf(IF platform = "win32" THEN toLowerCase(p) ELSE p)

MountNames == FoldNames(args.platform, pathResolve1(args.cwd, args.mountPoint))

IsPrefixOf(m, p) == Len(m) <= Len(p) /\ SubSeq(p, 1, Len(m)) = m

ResolveDone == pc = "done" /\ args.op = "resolveWithinMount"

\* C1: mount containment. Every path resolveWithinMount returns is the mount
\* itself or lies in the mount's directory subtree: the mount's directory
\* names are the first names of the returned path.
C1_MountContainment ==
  (ResolveDone /\ ~ret.thrown) =>
    IsPrefixOf(MountNames, FoldNames(args.platform, ret.val.s))

\* C2: resolveWithinMount(mount, '../escape.txt') throws the mount-escape
\* error for every mount path, the root and relative ones included.
C2_EscapeAlwaysThrows ==
  (ResolveDone /\ args.targetPath = Str(EscapeTarget)) =>
    (ret.thrown /\ ret.msg = EscapesMsg)

-----------------------------------------------------------------------------
(* Claims about normalizeHex *)

\* The number a string of hexadecimal digits denotes, read in either case.
RECURSIVE HexValue(_)
HexValue(s) ==
  IF s = <<>> THEN 0
  ELSE HexValue(SubSeq(s, 1, Len(s) - 1)) * 16
         + (IndexIn(toUpperChar(s[Len(s)]), HexUpper) - 1)

\* The number an input denotes: the number itself, or the digits after the
\* prefix.
InputValue(v) ==
  IF v.t = "number" THEN v.n
  ELSE IF Len(v.s) >= 2 /\ v.s[2] \in {"x", "X"} THEN HexValue(From(v.s, 3))
  ELSE HexValue(v.s)

IsCanonicalHex(s) == Len(s) = 4 /\ \A i \in 1..Len(s) : IsIn(s[i], HexUpper)

HexDone == pc = "done" /\ args.op = "normalizeHex"

\* C8: normalization is canonical. The result is exactly four uppercase
\* hexadecimal digits that denote the input's value; it is the result for the
\* numeric representation of that value, so that inputs of the same value
\* (differing in case, in the prefix, or number against string) all get the
\* same result; and normalizing the result again returns it unchanged.
C8_NormalizeHexCanonical ==
  HexDone =>
    /\ ret.val.t = "string"
    /\ IsCanonicalHex(ret.val.s)
    /\ HexValue(ret.val.s) = InputValue(args.value)
    /\ normalizeHex(Num(InputValue(args.value))) = ret.val
    /\ normalizeHex(ret.val) = ret.val

\* C8 witness: the lowercase prefixed vendor ID 0x2e8a has been normalized
\* to 2E8A.
C8_Witness ==
  /\ HexDone
  /\ args.value = Str(<<"0","x","2","e","8","a">>)
  /\ ret.val = Str(<<"2","E","8","A">>)

-----------------------------------------------------------------------------
(* Claims about extractInfoValue *)

\* The lines of a text, and the value the claim gives a key: the trimmed rest
\* of the first line that begins with the key and ':', compared
\* case-insensitively; undefined when there is no such line or the rest is
\* blank.
LineHasKey(line, key) == startsWith(toLowerCase(line), toLowerCase(key \o <<Colon>>))

RECURSIVE FirstKeyLine(_, _)
FirstKeyLine(lines, key) ==
  IF lines = <<>> THEN Undef
  ELSE IF LineHasKey(Head(lines), key)
    THEN Str(trim(From(Head(lines), Len(key) + 2)))
  ELSE FirstKeyLine(Tail(lines), key)

LineValue(text, key) ==
  LET v == FirstKeyLine(Split(text, NL), key)
  IN IF v.t = "string" /\ v.s = <<>> THEN Undef ELSE v

InfoDone == pc = "done" /\ args.op = "extractInfoValue"

\* C10: the extracted field is the trimmed rest of the first line that begins
\* with the key (case-insensitive), whole also when it holds a ':'; a key in
\* the middle of a line is no match; undefined when no line begins with it.
C10_LinePrefixExtraction ==
  InfoDone => ret.val = LineValue(args.text, args.key)

-----------------------------------------------------------------------------
(* Claims about isBoardStorage *)

ProbeDone == pc = "done" /\ args.op = "isBoardStorage"

IsDevice(v) == v.t = "object"

\* C9: the probe never throws; it returns a storage device exactly when the
\* path is a directory holding INFO_UF2.TXT or INDEX.HTM, and false otherwise;
\* a device of a volume whose info file is absent or unreadable has empty
\* info; the device's id is 'storage:<path>' and its description is the model,
\* else the board ID, else the fallback label.
C9_ProbeContract ==
  ProbeDone =>
    /\ ~ ret.thrown
    /\ IsDevice(ret.val) <=>
         ( args.node.stat = "dir"
           /\ (args.node.info /= "absent" \/ args.node.index) )
    /\ ~ IsDevice(ret.val) => ret.val = False
    /\ IsDevice(ret.val) =>
         /\ ret.val.id = Str(S_storage_colon \o args.volumePath)
         /\ ret.val.description =
              ( IF ret.val.model /= Undef THEN ret.val.model
                ELSE IF ret.val.boardId /= Undef THEN ret.val.boardId
                ELSE FsFallbackLabel )
         /\ args.node.info /= "text" =>
              ( ret.val.boardId = Undef /\ ret.val.model = Undef
                /\ ret.val.infoFile = Undef )

\* C9 witnesses: a volume with only INDEX.HTM was probed and gave a device
\* with the fallback label; a Pico volume gave a device described by its model.
C9_Witness ==
  /\ ProbeDone
  /\ args.node.info = "absent" /\ args.node.index
  /\ IsDevice(ret.val)
  /\ ret.val.description = FsFallbackLabel

-----------------------------------------------------------------------------
(* Claims about the classification *)

\* What the claim accepts, written out for the inputs of the check: the vendor
\* IDs that normalize to 2E8A, and the strings that hold RP2040, RPI-RP2 (with
\* an optional '-', '_' or space) or the whole word PICO, in any case.
AcceptedVendorInputs ==
  { Str(S_2E8A), Str(<<"2","e","8","a">>), Str(<<"0","x","2","e","8","a">>), Num(11914) }

HintedStrings ==
  { Str(S_RPI_RP2), Str(<<"r","p","i","_","r","p","2">>), Str(<<"R","P","I","R","P","2">>),
    Str(<<"P","i"," ","P","i","c","o">>), Str(<<"p","i","c","o","-","w">>),
    Str(<<"X","r","p","2","0","4","0","x">>), Str(trim(T_pico)) }

ClaimedRp2040(d) ==
  /\ d.t = "object"
  /\ \/ d.type = Str(S_serial) /\ d.vendorId \in AcceptedVendorInputs
     \/ d.type = Str(S_storage)
          /\ (d.boardId \in HintedStrings \/ d.model \in HintedStrings
               \/ d.infoFile \in HintedStrings)

ClassifyDone == pc = "done" /\ args.op = "isRp2040Device"

FilterDone == pc = "done" /\ args.op = "filterRp2040Devices"

\* The positions of a list whose device the claim accepts, in order.
RECURSIVE ClaimedKept(_)
ClaimedKept(devices) ==
  IF devices = <<>> THEN <<>>
  ELSE IF ClaimedRp2040(Head(devices))
    THEN <<Head(devices)>> \o ClaimedKept(Tail(devices))
  ELSE ClaimedKept(Tail(devices))

\* C7: isRp2040Device is true exactly for a serial device whose normalized
\* vendor ID is 2E8A and for a storage device of which the board ID, the model
\* or the info text matches a hint pattern, and false for every other input;
\* filterRp2040Devices keeps exactly the devices for which it is true.
C7_Classification ==
  /\ ClassifyDone => (ret.val <=> ClaimedRp2040(args.device))
  /\ FilterDone => ret.val = ClaimedKept(args.devices)

\* C7 witness: a storage device with board ID 'SAMD21' and no hint has been
\* classified, as no RP2040 device.
C7_Witness ==
  /\ ClassifyDone
  /\ args.device.t = "object"
  /\ args.device.type = Str(S_storage)
  /\ args.device.boardId = Str(S_SAMD21)
  /\ args.device.model = Str(<<"F","e","a","t","h","e","r">>)
  /\ ret.val = FALSE

-----------------------------------------------------------------------------
(* Claims about listDevices *)

DevDone == pc = "done" /\ args.op = "listDevices"

\* Whether serial enumeration failed in the call: the module did not load, or
\* SerialPort.list() failed. Whether storage discovery failed: the roots
\* could not be iterated.
SerialFailed == serialPortModulePromise /= "module" \/ ~ ports.ok

CallRoots == rootsOrDefault(args.searchRoots, args.platform)

StorageFailed == CallRoots.t /= "array"

Sources(errors) == [i \in 1..Len(errors) |-> errors[i].source]

\* C3: listDevices never throws: whatever the host and the searchRoots option,
\* it returns a result with a devices list and an errors list, and a failure
\* of either discovery source is an entry of errors.
C3_ListDevicesNeverThrows ==
  DevDone =>
    /\ ~ ret.thrown
    /\ DOMAIN ret.val = {"devices", "errors"}
    /\ SerialFailed => \E i \in 1..Len(ret.val.errors) : ret.val.errors[i].source = "serial"
    /\ StorageFailed => \E i \in 1..Len(ret.val.errors) : ret.val.errors[i].source = "storage"

\* C3 witness: a call in which both sources failed has returned.
C3_Witness ==
  /\ DevDone
  /\ SerialFailed /\ StorageFailed
  /\ ~ ret.thrown
  /\ Len(ret.val.errors) = 2

\* The classified boards storage discovery finds, and the classified serial
\* devices, each computed on its own.
ClassifiedBoards ==
  filterRp2040Devices(findMountedBoards(fs, args.listing, CallRoots).val)

ClassifiedSerial ==
  filterRp2040Devices(listSerialPorts(serialPortModulePromise, ports).val)

\* C4: the sources are independent. errors holds one 'serial' entry exactly
\* when serial enumeration failed, then one 'storage' entry exactly when
\* storage discovery failed, and nothing else; when only serial enumeration
\* failed the classified boards are all returned, and when only storage
\* discovery failed the classified serial devices are all returned.
C4_SourcesIndependent ==
  DevDone =>
    /\ Sources(ret.val.errors) =
         (IF SerialFailed THEN <<"serial">> ELSE <<>>)
           \o (IF StorageFailed THEN <<"storage">> ELSE <<>>)
    /\ (SerialFailed /\ ~ StorageFailed) => ret.val.devices = ClassifiedBoards
    /\ (StorageFailed /\ ~ SerialFailed) => ret.val.devices = ClassifiedSerial

\* C4 witness: serial enumeration failed and a mounted Pico was still
\* returned, with the one 'serial' error.
C4_Witness ==
  /\ DevDone
  /\ SerialFailed /\ ~ StorageFailed
  /\ Len(ret.val.devices) >= 1
  /\ Sources(ret.val.errors) = <<"serial">>

\* C5: no two entries of the returned devices list share an id.
C5_UniqueIds ==
  DevDone =>
    \A i, j \in 1..Len(ret.val.devices) :
      i /= j => ret.val.devices[i].id /= ret.val.devices[j].id

IsSerial(d) == d.type = Str(S_serial)

IsStorage(d) == d.type = Str(S_storage)

\* The paths storage discovery probes, in scan order: each root, then the
\* entries of the root in the order of the directory listing.
RECURSIVE ScanOrder(_)
ScanOrder(roots) ==
  IF roots = <<>> THEN <<>>
  ELSE LET r == Head(roots)
           es == entriesIn(fs, r, args.listing)
       IN <<r>> \o [i \in 1..Len(es) |-> pathJoin(r, es[i])] \o ScanOrder(Tail(roots))

\* The first position of a path in a list of paths (0 when it is not there).
FirstPos(p, list) ==
  IF \E k \in 1..Len(list) : list[k] = p
    THEN CHOOSE k \in 1..Len(list) :
           list[k] = p /\ \A m \in 1..(k - 1) : list[m] /= p
    ELSE 0

\* Whether a is b with some elements left out, the others in b's order.
RECURSIVE IsSubsequence(_, _)
IsSubsequence(a, b) ==
  IF a = <<>> THEN TRUE
  ELSE IF b = <<>> THEN FALSE
  ELSE IF Head(a) = Head(b) THEN IsSubsequence(Tail(a), Tail(b))
  ELSE IsSubsequence(a, Tail(b))

PortDevices == [k \in 1..Len(ports.list) |-> serialDevice(ports.list[k])]

\* C6: result order. Serial devices precede storage devices; the serial
\* devices are in the order of the port listing; the storage devices are in
\* scan order (a root, then its entries in listing order, root after root).
C6_ResultOrder ==
  DevDone =>
    LET ds == ret.val.devices
        scan == IF StorageFailed THEN <<>> ELSE ScanOrder(CallRoots.items)
    IN /\ \A i, j \in 1..Len(ds) : (IsStorage(ds[i]) /\ IsSerial(ds[j])) => j < i
       /\ IsSubsequence(SelectSeq(ds, IsSerial), PortDevices)
       /\ \A i \in 1..Len(ds) :
            IsStorage(ds[i]) => FirstPos(ds[i].mountPoint.s, scan) > 0
       /\ \A i, j \in 1..Len(ds) :
            (i < j /\ IsStorage(ds[i]) /\ IsStorage(ds[j]))
              => FirstPos(ds[i].mountPoint.s, scan) < FirstPos(ds[j].mountPoint.s, scan)

\* C6 witness: /media listed b before a, and the result holds a serial device,
\* then the Pico at /media/b, then the Pico at /media/a.
C6_Witness ==
  /\ DevDone
  /\ args.listing = << <<"b">>, <<"a">> >>
  /\ Len(ret.val.devices) = 3
  /\ IsSerial(ret.val.devices[1])
  /\ ret.val.devices[2].mountPoint = Str(pathJoin(RootMedia, <<"b">>))
  /\ ret.val.devices[3].mountPoint = Str(pathJoin(RootMedia, <<"a">>))

\* A volume with INDEX.HTM and no INFO_UF2.TXT.
IndexOnlyVolume == Node("dir", "absent", <<>>, TRUE, TRUE)

\* Whether the call scanned /media and could list it.
ScanDone == pc = "done" /\ args.op \in {"listDevices", "findMountedBoards"}

ScannedRoots ==
  IF args.op = "listDevices" THEN CallRoots
  ELSE rootsParam(args.searchRoots, args.platform)

MediaScanned ==
  /\ ScanDone
  /\ ScannedRoots.t = "array"
  /\ \E k \in 1..Len(ScannedRoots.items) : ScannedRoots.items[k] = RootMedia
  /\ fs[RootMedia].list

IndexOnlyVolumes == { p \in ChildPaths : fs[p] = IndexOnlyVolume }

\* C11 as stated: a volume under a scanned root that holds INDEX.HTM and no
\* INFO_UF2.TXT is reported by listDevices as a storage device.
C11_IndexOnlyVolumeDiscovered ==
  (DevDone /\ MediaScanned) =>
    \A p \in IndexOnlyVolumes :
      \E i \in 1..Len(ret.val.devices) :
        /\ IsStorage(ret.val.devices[i])
        /\ ret.val.devices[i].mountPoint = Str(p)

\* C11 as amended: such a volume is found by the storage scan, and
\* findMountedBoards reports it as a storage device without board ID, model
\* or info text; listDevices, which keeps the devices classified as RP2040,
\* does not report it.
C11_IndexOnlyVolumeScanned ==
  MediaScanned =>
    \A p \in IndexOnlyVolumes :
      IF args.op = "findMountedBoards"
        THEN \E i \in 1..Len(ret.val.items) :
               /\ IsStorage(ret.val.items[i])
               /\ ret.val.items[i].mountPoint = Str(p)
               /\ ret.val.items[i].id = Str(S_storage_colon \o p)
               /\ ret.val.items[i].boardId = Undef
               /\ ret.val.items[i].model = Undef
               /\ ret.val.items[i].infoFile = Undef
        ELSE \A i \in 1..Len(ret.val.devices) :
               IsStorage(ret.val.devices[i]) => ret.val.devices[i].mountPoint /= Str(p)

\* C11 witness: findMountedBoards has scanned /media, which holds such a
\* volume, and returned more than that volume.
C11_Witness ==
  /\ MediaScanned
  /\ args.op = "findMountedBoards"
  /\ IndexOnlyVolumes /= {}
  /\ Len(ret.val.items) >= 2

-----------------------------------------------------------------------------
(* picotool.js: resolveExecutable, putDeviceInFsMode, getPicotoolVersion *)

\* new Error(message): an error object made by this code, without a code.
Error(message) == [ref |-> "new", code |-> Undef, message |-> message]

ExecutableNotFoundMsg == "Specified picotool executable was not found: "

NotInstalledMsg == "picotool is not installed or not available on the PATH."

\* fs.pathExists over a filesystem given as a function of its existing paths.
fileExists(files, p) == p \in DOMAIN files

resolveExecutable_nocheck(files, commandPath) ==
  IF ~ Truthy(commandPath) THEN Returned(Lit("picotool")) ELSE Returned(commandPath)

\* resolveExecutable(commandPath)
resolveExecutable(files, commandPath) ==
  IF ~ Truthy(commandPath) THEN Returned(Lit("picotool"))
  ELSE IF ~ fileExists(files, commandPath.s)
    THEN Thrown(Error(<<ExecutableNotFoundMsg, commandPath>>))
  ELSE Returned(commandPath)

\* The decimal digits of a natural number.
RECURSIVE toDecimal(_)
toDecimal(n) ==
  IF n < 10 THEN <<HexLower[n + 1]>>
  ELSE toDecimal(n \div 10) \o <<HexLower[(n % 10) + 1]>>

\* String(value) of a number, a string, null or undefined.
String(value) ==
  CASE value.t = "number" -> Str(toDecimal(value.n))
    [] value.t = "string" -> value
    [] value.t = "null" -> Str(<<"n","u","l","l">>)
    [] OTHER -> Str(<<"u","n","d","e","f","i","n","e","d">>)

\* The default of the timeout option (picotool.js:22).
DefaultTimeout == 10000

\* One call of execa(file, args, options); options is undefined when the call
\* passes none.
ExecaCall(file, arguments, options) ==
  [file |-> file, args |-> arguments, options |-> options]

\* What awaiting execa yields: the result of the process or a rejection.
ExecaResolved(stdout) == [rejected |-> FALSE, stdout |-> stdout]

ExecaRejected(error) == [rejected |-> TRUE, error |-> error]

afterExeca_friendly(outcome) ==
  IF ~ outcome.rejected THEN Returned(Str(trim(outcome.stdout)))
  ELSE Thrown(Error(NotInstalledMsg))

\* The try/catch around execa (picotool.js:41-49 and :54-62).
afterExeca(outcome) ==
  IF ~ outcome.rejected THEN Returned(Str(trim(outcome.stdout)))
  ELSE IF outcome.error.code = Str(<<"E","N","O","E","N","T">>)
    THEN Thrown(Error(NotInstalledMsg))
  ELSE Thrown(outcome.error)

rebootArgs_truthy(options) ==
  <<Lit("reboot"), Lit("-f")>>
    \o (IF Truthy(options.serialNumber)
          THEN <<Lit("--serial"), options.serialNumber>> ELSE <<>>)
    \o (IF Truthy(options.bus) THEN <<Lit("--bus"), String(options.bus)>> ELSE <<>>)
    \o (IF Truthy(options.address)
          THEN <<Lit("--address"), String(options.address)>> ELSE <<>>)
    \o (IF Truthy(options.drive) THEN <<Lit("--drive"), options.drive>> ELSE <<>>)

\* The argument list built at picotool.js:26-39.
rebootArgs(options) ==
  <<Lit("reboot"), Lit("-f")>>
    \o (IF Truthy(options.serialNumber)
          THEN <<Lit("--serial"), options.serialNumber>> ELSE <<>>)
    \o (IF options.bus /= Undef THEN <<Lit("--bus"), String(options.bus)>> ELSE <<>>)
    \o (IF options.address /= Undef
          THEN <<Lit("--address"), String(options.address)>> ELSE <<>>)
    \o (IF Truthy(options.drive) THEN <<Lit("--drive"), options.drive>> ELSE <<>>)

\* A call of the tool: what it returns or throws, and the processes it
\* starts. outcome is what execa yields if it is called.
ToolResult(result, calls) == [ret |-> result, calls |-> calls]

\* putDeviceInFsMode(options)
putDeviceInFsMode(files, options, outcome) ==
  LET command == resolveExecutable(files, options.picotoolPath)
      timeout == IF options.timeout = Undef THEN Num(DefaultTimeout) ELSE options.timeout
  IN IF command.thrown THEN ToolResult(command, <<>>)
     ELSE ToolResult(afterExeca(outcome),
            <<ExecaCall(command.val, rebootArgs(options), [timeout |-> timeout])>>)

\* getPicotoolVersion(picotoolPath)
getPicotoolVersion(files, picotoolPath, outcome) ==
  LET command == resolveExecutable(files, picotoolPath)
  IN IF command.thrown THEN ToolResult(command, <<>>)
     ELSE ToolResult(afterExeca(outcome),
            <<ExecaCall(command.val, <<Lit("version")>>, Undef)>>)

\* The options of the calls: a serial number (also an empty one), a bus and
\* an address as numbers (also 0) or digits, a drive, a custom executable and
\* a timeout; each may be left out.
S_custom == <<"/","o","p","t","/","p","t">>

ToolOptions ==
  [ serialNumber : {Undef, Str(<<"S","1">>), Str(<<>>)},
    bus : {Undef, Num(0), Num(1), Str(<<"2">>)},
    address : {Undef, Num(0), Num(12)},
    drive : {Undef, Str(<<"E",":">>)},
    picotoolPath : {Undef, Str(S_custom)},
    timeout : {Undef, Num(5000)} ]

ToolArgs ==
  { [op |-> "putDeviceInFsMode", options |-> o] : o \in ToolOptions }
    \cup { [op |-> "getPicotoolVersion", options |-> [picotoolPath |-> p]] :
             p \in {Undef, Str(S_custom)} }

\* The host either holds the custom executable or does not.
ToolHosts ==
  { [p \in {} |-> "file"], [p \in {S_custom} |-> "file"] }

\* The errors execa rejects with: the executable cannot be spawned, the
\* process exits with a failure, the process times out, another system error.
ExecaErrors ==
  { [ref |-> "e1", code |-> Str(<<"E","N","O","E","N","T">>), message |-> "spawn picotool ENOENT"],
    [ref |-> "e2", code |-> Undef, message |-> "Command failed with exit code 1"],
    [ref |-> "e3", code |-> Undef, message |-> "Command timed out"],
    [ref |-> "e4", code |-> Str(<<"E","A","C","C","E","S">>), message |-> "spawn EACCES"] }

ExecaOutcomes ==
  { ExecaResolved(<<"v","1",NL>>) } \cup { ExecaRejected(e) : e \in ExecaErrors }

InitTool ==
  /\ pc = "call"
  /\ args \in ToolArgs
  /\ ret = Pending
  /\ serialPortModulePromise = "unset"
  /\ ports = [ok |-> TRUE, list |-> <<>>]
  /\ fs \in ToolHosts
  /\ execaCalls = <<>>

\* The outcome of execa is recorded with the arguments; a call that never
\* reaches execa has one way to end.
ToolOutcomes(started) ==
  IF started THEN ExecaOutcomes ELSE { CHOOSE o \in ExecaOutcomes : TRUE }

PutDeviceInFsModeCall ==
  /\ pc = "call"
  /\ args.op = "putDeviceInFsMode"
  /\ \E outcome \in ToolOutcomes(~ resolveExecutable(fs, args.options.picotoolPath).thrown) :
       LET r == putDeviceInFsMode(fs, args.options, outcome)
       IN /\ ret' = r.ret
          /\ execaCalls' = execaCalls \o r.calls
          /\ args' = [op |-> args.op, options |-> args.options, outcome |-> outcome]
  /\ pc' = "done"
  /\ UNCHANGED <<serialPortModulePromise, ports, fs>>

GetPicotoolVersionCall ==
  /\ pc = "call"
  /\ args.op = "getPicotoolVersion"
  /\ \E outcome \in ToolOutcomes(~ resolveExecutable(fs, args.options.picotoolPath).thrown) :
       LET r == getPicotoolVersion(fs, args.options.picotoolPath, outcome)
       IN /\ ret' = r.ret
          /\ execaCalls' = execaCalls \o r.calls
          /\ args' = [op |-> args.op, options |-> args.options, outcome |-> outcome]
  /\ pc' = "done"
  /\ UNCHANGED <<serialPortModulePromise, ports, fs>>

NextTool == PutDeviceInFsModeCall \/ GetPicotoolVersionCall

SpecTool == InitTool /\ [][NextTool]_vars

-----------------------------------------------------------------------------
(* Claims about picotool.js *)

ToolDone == pc = "done" /\ args.op \in {"putDeviceInFsMode", "getPicotoolVersion"}

RebootStarted ==
  pc = "done" /\ args.op = "putDeviceInFsMode" /\ Len(execaCalls) = 1

\* A serial number or a drive is given when it is a string that is not empty;
\* a bus or an address is given when the option is there, also when it is 0.
TextGiven(v) == v.t = "string" /\ v.s /= <<>>

NumberGiven(v) == v /= Undef

\* The text of a bus or an address.
TextOf(v) ==
  CASE v = Num(0) -> Str(<<"0">>)
    [] v = Num(1) -> Str(<<"1">>)
    [] v = Num(12) -> Str(<<"1","2">>)
    [] OTHER -> v

FlagPair(flag, given, value) == IF given THEN <<Lit(flag), value>> ELSE <<>>

\* C12: the helper is invoked with 'reboot', '-f' and then, in this order,
\* '--serial' S, '--bus' B, '--address' A and '--drive' D, each pair there
\* exactly when the field is given, each value a string, 0 counting as given.
C12_RebootArguments ==
  RebootStarted =>
    LET o == args.options IN
      /\ execaCalls[1].args =
           <<Lit("reboot"), Lit("-f")>>
             \o FlagPair("--serial", TextGiven(o.serialNumber), o.serialNumber)
             \o FlagPair("--bus", NumberGiven(o.bus), TextOf(o.bus))
             \o FlagPair("--address", NumberGiven(o.address), TextOf(o.address))
             \o FlagPair("--drive", TextGiven(o.drive), o.drive)
      /\ \A i \in 1..Len(execaCalls[1].args) :
           execaCalls[1].args[i].t \in {"literal", "string"}

\* C12 witness: a reboot with every field given, bus 0, has started the helper
\* with ten arguments.
C12_Witness ==
  /\ RebootStarted
  /\ TextGiven(args.options.serialNumber)
  /\ args.options.bus = Num(0)
  /\ args.options.address = Num(12)
  /\ TextGiven(args.options.drive)
  /\ Len(execaCalls[1].args) = 10

\* C13: with a custom executable path that does not exist the call fails with
\* the 'Specified picotool executable was not found' error and no process is
\* started; with one that exists that path is the command run; without one
\* the command is 'picotool'.
C13_CustomExecutable ==
  ToolDone =>
    LET path == args.options.picotoolPath IN
      IF path = Undef
        THEN Len(execaCalls) = 1 /\ execaCalls[1].file = Lit("picotool")
      ELSE IF path.s \in DOMAIN fs
        THEN Len(execaCalls) = 1 /\ execaCalls[1].file = path
      ELSE /\ execaCalls = <<>>
           /\ ret.thrown
           /\ ret.msg.message = <<"Specified picotool executable was not found: ", path>>

\* C13 witness: a call with a custom path that does not exist has failed.
C13_Witness ==
  /\ ToolDone
  /\ args.options.picotoolPath = Str(S_custom)
  /\ S_custom \notin DOMAIN fs
  /\ ret.thrown

\* C14: a failure of the helper whose code is ENOENT is replaced by the error
\* 'picotool is not installed or not available on the PATH.'; every other
\* failure reaches the caller as the same error object; the process is
\* started at most once per call.
C14_ErrorTranslation ==
  ToolDone =>
    /\ Len(execaCalls) <= 1
    /\ (Len(execaCalls) = 1 /\ args.outcome.rejected) =>
         /\ ret.thrown
         /\ IF args.outcome.error.code = Str(<<"E","N","O","E","N","T">>)
              THEN /\ ret.msg.ref = "new"
                   /\ ret.msg.message =
                        "picotool is not installed or not available on the PATH."
              ELSE ret.msg = args.outcome.error

\* C14 witness: the helper timed out and the caller got that error object.
C14_Witness ==
  /\ ToolDone
  /\ Len(execaCalls) = 1
  /\ args.outcome.rejected
  /\ args.outcome.error.ref = "e3"
  /\ ret.thrown
  /\ ret.msg.ref = "e3"

\* The timeout the caller specified, if any.
CallerTimeout ==
  IF "timeout" \in DOMAIN args.options /\ args.options.timeout /= Undef
    THEN args.options.timeout
  ELSE Num(10000)

\* C15: every process started by putDeviceInFsMode and by getPicotoolVersion
\* is given a timeout: the caller's, else 10000 ms.
C15_EveryInvocationTimed ==
  ToolDone =>
    \A i \in 1..Len(execaCalls) :
      /\ execaCalls[i].options /= Undef
      /\ execaCalls[i].options.timeout = CallerTimeout

-----------------------------------------------------------------------------
(* The filesystem of the copies: a function of its existing absolute paths,
   each a directory or a file with its bytes; fs-extra's stat, ensureDir and
   copy over it *)

DirNode == [kind |-> "dir", bytes |-> 0]

FileNode(bytes) == [kind |-> "file", bytes |-> bytes]

\* fs.stat(p).catch(() => null): "none" stands for null.
statOf(files, p) == IF p \in DOMAIN files THEN files[p].kind ELSE "none"

\* path.dirname and path.basename of a resolved path.
dirname(p) ==
  LET segs == segmentsOf(p)
  IN IF segs = <<>> THEN <<Slash>> ELSE pathOf(SubSeq(segs, 1, Len(segs) - 1))

basename(p) ==
  LET segs == segmentsOf(p) IN IF segs = <<>> THEN <<>> ELSE segs[Len(segs)]

\* Whether the resolved path p is base or lies below it.
IsUnder(p, base) ==
  LET ps == segmentsOf(p)
      bs == segmentsOf(base)
  IN Len(bs) <= Len(ps) /\ SubSeq(ps, 1, Len(bs)) = bs

\* The place below to of the path p below from.
relocate(p, from, to) ==
  LET ps == segmentsOf(p)
  IN pathOf(segmentsOf(to) \o SubSeq(ps, Len(segmentsOf(from)) + 1, Len(ps)))

\* The path and its ancestors, the root included.
pathChain(p) ==
  LET segs == segmentsOf(p) IN { pathOf(SubSeq(segs, 1, k)) : k \in 0..Len(segs) }

FsResult(ok, files) == [ok |-> ok, files |-> files]

\* fs.ensureDir(p): makes the directory and its missing ancestors; fails when
\* the path or one of its ancestors is a file.
ensureDir(files, p) ==
  IF \E c \in pathChain(p) : statOf(files, c) = "file" THEN FsResult(FALSE, files)
  ELSE FsResult(TRUE,
         [q \in (DOMAIN files) \cup pathChain(p) |->
            IF q \in DOMAIN files THEN files[q] ELSE DirNode])

\* The filesystem after the entries T below src are put below dst.
putEntries(files, T, src, dst) ==
  [t \in (DOMAIN files) \cup { relocate(q, src, dst) : q \in T } |->
     IF \E q \in T : relocate(q, src, dst) = t
       THEN files[CHOOSE q \in T : relocate(q, src, dst) = t]
       ELSE files[t]]

\* fs.copy(src, dst, { overwrite }) of an existing src: the outcomes it can
\* have. A file replaces a file when overwrite is set and is left alone
\* otherwise, and a directory is merged into a directory; a file cannot replace a directory nor a directory a file, a path
\* cannot be copied onto itself nor a directory below itself. The parent of
\* dst is made first. A copy that fails below the top may have put any of the
\* entries that precede the failure.
copy(files, src, dst, overwrite) ==
  LET parent == ensureDir(files, dirname(dst))
      sub == { q \in DOMAIN files :
                 /\ IsUnder(q, src)
                 /\ overwrite \/ files[q].kind = "dir"
                      \/ statOf(files, relocate(q, src, dst)) = "none" }
      clash(q) ==
        LET t == relocate(q, src, dst)
        IN statOf(files, t) /= "none" /\ statOf(files, t) /= files[q].kind
      closed(T) == \A q \in T : q = src \/ dirname(q) \in T
  IN IF src = dst \/ (files[src].kind = "dir" /\ IsUnder(dst, src)) \/ clash(src)
          \/ ~ parent.ok
       THEN { FsResult(FALSE, files) }
     ELSE IF \A q \in sub : ~ clash(q)
       THEN { FsResult(TRUE, putEntries(parent.files, sub, src, dst)) }
     ELSE { FsResult(FALSE, putEntries(parent.files, T, src, dst)) :
              T \in { T \in SUBSET sub :
                        /\ src \in T
                        /\ closed(T)
                        /\ \A q \in T : ~ clash(q)
                        /\ \E q \in sub \ T : clash(q) /\ dirname(q) \in T } }

-----------------------------------------------------------------------------
(* fileTransfer.js: ensureMountPoint, pickTargetPath, copyToDevice,
   copyFromDevice. The calls run on a posix host in the working directory
   cwd; each yields the set of its outcomes, a result with the filesystem it
   leaves *)

MountRequiredMsg == "A mount point is required."

MountNotFoundMsg == "Mount point not found or not a directory"

SourceMissingMsg == "Source path does not exist"

DeviceSourceMissingMsg == "Source path on device does not exist"

CopyFailedMsg == "fs-extra: ensureDir or copy failed"

\* ensureMountPoint(mountPoint)
ensureMountPoint(files, cwd, mountPoint) ==
  IF ~ Truthy(mountPoint) THEN Thrown(MountRequiredMsg)
  ELSE IF statOf(files, pathResolve1(cwd, mountPoint.s)) /= "dir"
    THEN Thrown(MountNotFoundMsg)
  ELSE Returned(Str(pathResolve1(cwd, mountPoint.s)))

\* pickTargetPath(targetPath, fallbackName)
pickTargetPath(targetPath, fallbackName) ==
  IF targetPath.t = "string" /\ Len(trim(targetPath.s)) > 0 THEN targetPath
  ELSE fallbackName

Outcome(result, files) == [ret |-> result, files |-> files]

ensureThenCopy_keep(files, dir, src, dst) ==
  LET made == ensureDir(files, dir)
  IN IF ~ made.ok THEN { Outcome(Thrown(CopyFailedMsg), files) }
     ELSE { Outcome(IF c.ok THEN Returned(Str(dst)) ELSE Thrown(CopyFailedMsg), c.files) :
              c \in copy(made.files, src, dst, FALSE) }

\* ensureDir(dir) and then copy(src, dst, { overwrite: true }), as both
\* branches of the copies do (fileTransfer.js:45-51, :65-71).
ensureThenCopy(files, dir, src, dst) ==
  LET made == ensureDir(files, dir)
  IN IF ~ made.ok THEN { Outcome(Thrown(CopyFailedMsg), files) }
     ELSE { Outcome(IF c.ok THEN Returned(Str(dst)) ELSE Thrown(CopyFailedMsg), c.files) :
              c \in copy(made.files, src, dst, TRUE) }

copyToDevice_ignoreTarget(files, cwd, source, mountPoint, targetPath) ==
  LET resolvedMount == ensureMountPoint(files, cwd, mountPoint)
      resolvedSource == pathResolve1(cwd, source)
      stats == statOf(files, resolvedSource)
      fallbackName == Str(basename(resolvedSource))
      destination == resolveWithinMount("linux", cwd, resolvedMount.val.s, fallbackName)
  IN IF resolvedMount.thrown THEN { Outcome(resolvedMount, files) }
     ELSE IF stats = "none" THEN { Outcome(Thrown(SourceMissingMsg), files) }
     ELSE IF destination.thrown THEN { Outcome(destination, files) }
     ELSE IF stats = "dir"
       THEN ensureThenCopy(files, destination.val.s, resolvedSource, destination.val.s)
     ELSE ensureThenCopy(files, dirname(destination.val.s), resolvedSource,
                         destination.val.s)

copyToDevice_sourceFirst(files, cwd, source, mountPoint, targetPath) ==
  LET resolvedMount == ensureMountPoint(files, cwd, mountPoint)
      resolvedSource == pathResolve1(cwd, source)
      stats == statOf(files, resolvedSource)
      fallbackName == Str(basename(resolvedSource))
      destination ==
        resolveWithinMount("linux", cwd, resolvedMount.val.s,
                           pickTargetPath(targetPath, fallbackName))
  IN IF stats = "none" THEN { Outcome(Thrown(SourceMissingMsg), files) }
     ELSE IF resolvedMount.thrown THEN { Outcome(resolvedMount, files) }
     ELSE IF destination.thrown THEN { Outcome(destination, files) }
     ELSE IF stats = "dir"
       THEN ensureThenCopy(files, destination.val.s, resolvedSource, destination.val.s)
     ELSE ensureThenCopy(files, dirname(destination.val.s), resolvedSource,
                         destination.val.s)

\* copyToDevice(source, mountPoint, { targetPath })
copyToDevice(files, cwd, source, mountPoint, targetPath) ==
  LET resolvedMount == ensureMountPoint(files, cwd, mountPoint)
      resolvedSource == pathResolve1(cwd, source)
      stats == statOf(files, resolvedSource)
      fallbackName == Str(basename(resolvedSource))
      destination ==
        resolveWithinMount("linux", cwd, resolvedMount.val.s,
                           pickTargetPath(targetPath, fallbackName))
  IN IF resolvedMount.thrown THEN { Outcome(resolvedMount, files) }
     ELSE IF stats = "none" THEN { Outcome(Thrown(SourceMissingMsg), files) }
     ELSE IF destination.thrown THEN { Outcome(destination, files) }
     ELSE IF stats = "dir"
       THEN ensureThenCopy(files, destination.val.s, resolvedSource, destination.val.s)
     ELSE ensureThenCopy(files, dirname(destination.val.s), resolvedSource,
                         destination.val.s)

copyFromDevice_ensureFirst(files, cwd, mountPoint, sourcePath, destination) ==
  LET resolvedMount == ensureMountPoint(files, cwd, mountPoint)
      resolvedSource == resolveWithinMount("linux", cwd, resolvedMount.val.s, sourcePath)
      resolvedDestination == pathResolve1(cwd, destination)
      made == ensureDir(files, dirname(resolvedDestination)).files
  IN IF resolvedMount.thrown THEN { Outcome(resolvedMount, files) }
     ELSE IF resolvedSource.thrown THEN { Outcome(resolvedSource, made) }
     ELSE IF statOf(files, resolvedSource.val.s) = "none"
       THEN { Outcome(Thrown(DeviceSourceMissingMsg), made) }
     ELSE IF statOf(files, resolvedSource.val.s) = "dir"
       THEN ensureThenCopy(files, resolvedDestination, resolvedSource.val.s,
                           resolvedDestination)
     ELSE ensureThenCopy(files, dirname(resolvedDestination), resolvedSource.val.s,
                         resolvedDestination)

\* copyFromDevice(mountPoint, sourcePath, destination)
copyFromDevice(files, cwd, mountPoint, sourcePath, destination) ==
  LET resolvedMount == ensureMountPoint(files, cwd, mountPoint)
      resolvedSource == resolveWithinMount("linux", cwd, resolvedMount.val.s, sourcePath)
      resolvedDestination == pathResolve1(cwd, destination)
  IN IF resolvedMount.thrown THEN { Outcome(resolvedMount, files) }
     ELSE IF resolvedSource.thrown THEN { Outcome(resolvedSource, files) }
     ELSE IF statOf(files, resolvedSource.val.s) = "none"
       THEN { Outcome(Thrown(DeviceSourceMissingMsg), files) }
     ELSE IF statOf(files, resolvedSource.val.s) = "dir"
       THEN ensureThenCopy(files, resolvedDestination, resolvedSource.val.s,
                           resolvedDestination)
     ELSE ensureThenCopy(files, dirname(resolvedDestination), resolvedSource.val.s,
                         resolvedDestination)

-----------------------------------------------------------------------------
(* The host of the copies and the calls of copyToDevice and copyFromDevice *)

P_root == <<Slash>>

P_home == <<"/","h">>

P_src == <<"/","h","/","d">>

P_mount == <<"/","m">>

P_out == <<"/","o">>

\* The filesystem that holds the entries given as <<path, node>> pairs, and
\* the entries given below a base path.
FsOf(entries) ==
  [p \in { e[1] : e \in entries } |-> (CHOOSE e \in entries : e[1] = p)[2]]

Below(base, entries) == { <<base \o e[1], e[2]>> : e \in entries }

\* What the source path holds: nothing, a file, or a directory: empty, with a
\* file, or with a file and a directory that holds a file.
SourceTrees ==
  { {},
    { <<<<>>, FileNode(1)>> },
    { <<<<>>, DirNode>> },
    { <<<<>>, DirNode>>, <<<<"/","a">>, FileNode(1)>> },
    { <<<<>>, DirNode>>, <<<<"/","a">>, FileNode(1)>>,
      <<<<"/","s">>, DirNode>>, <<<<"/","s","/","b">>, FileNode(2)>> } }

\* What an entry of the mount holds before the copy: nothing, a file, or a
\* directory: empty, with a file a of other bytes, with another file c, with
\* both, or with a directory a.
PriorTrees ==
  { {},
    { <<<<>>, FileNode(9)>> },
    { <<<<>>, DirNode>> },
    { <<<<>>, DirNode>>, <<<<"/","a">>, FileNode(9)>> },
    { <<<<>>, DirNode>>, <<<<"/","c">>, FileNode(9)>> },
    { <<<<>>, DirNode>>, <<<<"/","a">>, FileNode(9)>>, <<<<"/","c">>, FileNode(9)>> },
    { <<<<>>, DirNode>>, <<<<"/","a">>, DirNode>> } }

\* The mount path holds nothing, a file, or a directory with prior content at
\* the entry p or at the entry d.
MountTrees ==
  { {}, { <<<<>>, FileNode(9)>> } }
    \cup { { <<<<>>, DirNode>> } \cup Below(<<"/", name>>, prior) :
             name \in {"p", "d"}, prior \in PriorTrees }

CopyHosts ==
  { FsOf({ <<P_root, DirNode>>, <<P_home, DirNode>> }
           \cup Below(P_src, s) \cup Below(P_mount, m)) :
      s \in SourceTrees, m \in MountTrees }

\* The targetPath option: absent, empty, blank, a name, a nested name, the
\* mount itself, and a path that leaves the mount.
CopyTargets ==
  { Undef, Str(<<>>), Str(<<" ">>), Str(<<"p">>), Str(<<"p","/","q">>),
    Str(Dot), Str(<<".",".","/","x">>) }

\* The mount point as the caller writes it: absolute, relative to the working
\* directory, or empty.
CopyMounts == { Str(P_mount), Str(<<"m">>), Str(<<>>) }

CopyArgs ==
  [op : {"copyToDevice"}, cwd : {P_root}, source : {P_src},
   mountPoint : CopyMounts, targetPath : CopyTargets]

InitCopy ==
  /\ pc = "call"
  /\ args \in CopyArgs
  /\ ret = Pending
  /\ serialPortModulePromise = "unset"
  /\ ports = [ok |-> TRUE, list |-> <<>>]
  /\ fs \in CopyHosts
  /\ execaCalls = <<>>

\* copyToDevice runs; the filesystem it found is kept with the arguments.
CopyToDeviceCall ==
  /\ pc = "call"
  /\ args.op = "copyToDevice"
  /\ \E out \in copyToDevice(fs, args.cwd, args.source, args.mountPoint, args.targetPath) :
       /\ ret' = out.ret
       /\ fs' = out.files
  /\ args' = [op |-> "copyToDevice", cwd |-> args.cwd, source |-> args.source,
              mountPoint |-> args.mountPoint, targetPath |-> args.targetPath,
              before |-> fs]
  /\ pc' = "copied"
  /\ UNCHANGED <<serialPortModulePromise, ports, execaCalls>>

\* After a copy to the device that succeeded, the same relative path is
\* copied from the device into /o, which does not exist yet.
CopyFromDeviceCall ==
  /\ pc = "copied"
  /\ ~ ret.thrown
  /\ LET sourcePath ==
           pickTargetPath(args.targetPath, Str(basename(pathResolve1(args.cwd, args.source))))
     IN /\ \E out \in copyFromDevice(fs, args.cwd, args.mountPoint, sourcePath, P_out) :
             /\ ret' = out.ret
             /\ fs' = out.files
        /\ args' = [op |-> "copyFromDevice", cwd |-> args.cwd, source |-> args.source,
                    mountPoint |-> args.mountPoint, targetPath |-> args.targetPath,
                    sourcePath |-> sourcePath,
                    destination |-> P_out, copiedTo |-> ret.val.s,
                    before |-> args.before]
  /\ pc' = "done"
  /\ UNCHANGED <<serialPortModulePromise, ports, execaCalls>>

NextCopy == CopyToDeviceCall \/ CopyFromDeviceCall

SpecCopy == InitCopy /\ [][NextCopy]_vars

-----------------------------------------------------------------------------
(* Claims about copyToDevice and copyFromDevice *)

\* The entries at and below a path, each as its relative segments and its
\* node; the files among them; the relative paths of a set of entries.
RelEntries(files, base) ==
  { <<SubSeq(segmentsOf(q), Len(segmentsOf(base)) + 1, Len(segmentsOf(q))), files[q]>> :
      q \in { q \in DOMAIN files : IsUnder(q, base) } }

RelFiles(files, base) == { e \in RelEntries(files, base) : e[2].kind = "file" }

RelPaths(entries) == { e[1] : e \in entries }

\* A directory was copied to the device under the relative path P and P was
\* copied back into the fresh destination, both with success.
RoundTripDone ==
  /\ pc = "done"
  /\ args.op = "copyFromDevice"
  /\ ~ ret.thrown
  /\ args.targetPath = args.sourcePath
  /\ statOf(args.before, P_src) = "dir"

\* C16 as stated: after the round trip the fresh destination holds the same
\* relative file paths as the source directory, each with the same bytes,
\* whatever the mount held before.
C16_RoundTrip ==
  RoundTripDone => RelFiles(fs, P_out) = RelFiles(args.before, P_src)

\* C16 as amended: after the round trip every file of the source directory is
\* in the fresh destination at the same relative path with the same bytes;
\* the destination holds no other file when, before the copy, the
\* destination path on the mount held no file that the source does not hold.
C16_RoundTripKeepsSource ==
  RoundTripDone =>
    /\ RelFiles(args.before, P_src) \subseteq RelFiles(fs, P_out)
    /\ RelPaths(RelFiles(args.before, args.copiedTo))
           \subseteq RelPaths(RelFiles(args.before, P_src))
         => RelFiles(fs, P_out) = RelFiles(args.before, P_src)

\* C16 witness: a directory of two files went onto a directory that held a
\* file of the same name with other bytes, and came back as it was.
C16_Witness ==
  /\ RoundTripDone
  /\ Cardinality(RelFiles(args.before, P_src)) = 2
  /\ RelFiles(args.before, args.copiedTo) = { <<<<<<"a">>>>, FileNode(9)>> }
  /\ RelFiles(fs, P_out) = RelFiles(args.before, P_src)

CopiedOk == pc = "copied" /\ ~ ret.thrown

\* C17 as stated: after a successful copy of a directory onto a destination
\* that exists, the tree at the destination is the tree of the source; after
\* a successful copy of a file the destination holds the source's bytes.
C17_Overwrite ==
  CopiedOk =>
    IF statOf(args.before, P_src) = "dir"
      THEN statOf(args.before, ret.val.s) /= "none"
             => RelEntries(fs, ret.val.s) = RelEntries(args.before, P_src)
      ELSE fs[ret.val.s] = args.before[P_src]

\* C17 as amended: after a successful copy of a directory, the destination
\* holds every entry of the source, files with the source's bytes, and every
\* entry it held before at a path the source does not hold, unchanged, and
\* nothing else; after a successful copy of a file the destination file
\* holds the source's bytes.
C17_OverwriteMerges ==
  CopiedOk =>
    IF statOf(args.before, P_src) = "dir"
      THEN LET D == RelEntries(args.before, P_src)
               old == RelEntries(args.before, ret.val.s)
           IN RelEntries(fs, ret.val.s) = D \cup { e \in old : e[1] \notin RelPaths(D) }
      ELSE fs[ret.val.s] = args.before[P_src]

\* C17 witness: a directory with a file a went onto a directory that held a
\* and c: a has the source's bytes and c is as it was.
C17_Witness ==
  /\ CopiedOk
  /\ statOf(args.before, P_src) = "dir"
  /\ RelFiles(args.before, ret.val.s) =
       { <<<<<<"a">>>>, FileNode(9)>>, <<<<<<"c">>>>, FileNode(9)>> }
  /\ RelFiles(fs, ret.val.s) = { <<<<<<"a">>>>, FileNode(1)>>, <<<<<<"c">>>>, FileNode(9)>> }

\* The destination of a copy of /h/d onto the mount /m.
BlankTarget == args.targetPath \in {Undef, Str(<<>>), Str(<<" ">>)}

ExpectedDestination ==
  IF BlankTarget THEN <<"/","m","/","d">>
  ELSE CASE args.targetPath = Str(<<"p">>) -> <<"/","m","/","p">>
         [] args.targetPath = Str(<<"p","/","q">>) -> <<"/","m","/","p","/","q">>
         [] args.targetPath = Str(Dot) -> <<"/","m">>
         [] OTHER -> <<>>

MountIsDirectory ==
  /\ args.mountPoint \in {Str(<<"/","m">>), Str(<<"m">>)}
  /\ statOf(args.before, <<"/","m">>) = "dir"

\* C18 as stated: a copy whose source does not exist fails with 'Source path
\* does not exist'; a copy that succeeds returns the absolute destination,
\* <mount>/<base name of the source> for a targetPath that is absent, empty
\* or blank and targetPath resolved against the mount otherwise.
C18_SourceAndDestination ==
  pc = "copied" =>
    /\ statOf(args.before, P_src) = "none"
         => (ret.thrown /\ ret.msg = "Source path does not exist")
    /\ ~ ret.thrown => ret.val = Str(ExpectedDestination)

\* C18 as amended: the mount point is checked first. With a mount point that
\* is empty, missing or no directory the copy fails with the mount point
\* error; with a mount point that is a directory and a source that does not
\* exist it fails with 'Source path does not exist'; the destination of a
\* copy that succeeds is as stated.
C18_MountThenSource ==
  pc = "copied" =>
    /\ ~ MountIsDirectory
         => (ret.thrown /\ ret.msg \in {"A mount point is required.",
                                        "Mount point not found or not a directory"})
    /\ (MountIsDirectory /\ statOf(args.before, P_src) = "none")
         => (ret.thrown /\ ret.msg = "Source path does not exist")
    /\ ~ ret.thrown => ret.val = Str(ExpectedDestination)

\* C18 witness: a copy with a blank targetPath went to /m/d.
C18_Witness ==
  /\ CopiedOk
  /\ args.targetPath = Str(<<" ">>)
  /\ ret.val = Str(<<"/","m","/","d">>)
  /\ statOf(fs, <<"/","m","/","d">>) /= "none"

-----------------------------------------------------------------------------
(* firmware.js: assertUf2Filename, uploadFirmware, autoDetectFirmwareFile,
   downloadFirmware *)

X_uf2 == <<".","u","f","2">>

\* String.prototype.endsWith
endsWith(s, suffix) ==
  Len(suffix) <= Len(s) /\ SubSeq(s, Len(s) - Len(suffix) + 1, Len(s)) = suffix

FirmwarePathMsg == "Firmware path must reference a .uf2 file."

TargetFilenameMsg == "Target filename must reference a .uf2 file."

SourceFilenameMsg == "Source filename must reference a .uf2 file."

FirmwareNotFoundMsg == "Firmware file not found"

NoUf2Msg == "No UF2 firmware file found on the device. Specify --filename to pick one explicitly."

NotFoundOnDeviceMsg == "Firmware file not found on device"

\* assertUf2Filename(name, context): whether it throws.
assertUf2Fails(name) ==
  ~ Truthy(name) \/ name.t /= "string" \/ ~ endsWith(toLowerCase(name.s), X_uf2)

uploadFirmware_noTargetCheck(files, cwd, firmwarePath, mountPoint, targetFilename) ==
  LET resolvedFirmware == pathResolve1(cwd, firmwarePath)
      resolvedMount == ensureMountPoint(files, cwd, mountPoint)
      target == IF Truthy(targetFilename) THEN targetFilename
                ELSE Str(basename(resolvedFirmware))
      destination == resolveWithinMount("linux", cwd, resolvedMount.val.s, target)
  IN IF statOf(files, resolvedFirmware) /= "file"
       THEN { Outcome(Thrown(FirmwareNotFoundMsg), files) }
     ELSE IF assertUf2Fails(Str(resolvedFirmware))
       THEN { Outcome(Thrown(FirmwarePathMsg), files) }
     ELSE IF resolvedMount.thrown THEN { Outcome(resolvedMount, files) }
     ELSE IF destination.thrown THEN { Outcome(destination, files) }
     ELSE ensureThenCopy(files, dirname(destination.val.s), resolvedFirmware,
                         destination.val.s)

\* uploadFirmware(firmwarePath, mountPoint, { targetFilename })
uploadFirmware(files, cwd, firmwarePath, mountPoint, targetFilename) ==
  LET resolvedFirmware == pathResolve1(cwd, firmwarePath)
      resolvedMount == ensureMountPoint(files, cwd, mountPoint)
      target == IF Truthy(targetFilename) THEN targetFilename
                ELSE Str(basename(resolvedFirmware))
      destination == resolveWithinMount("linux", cwd, resolvedMount.val.s, target)
  IN IF statOf(files, resolvedFirmware) /= "file"
       THEN { Outcome(Thrown(FirmwareNotFoundMsg), files) }
     ELSE IF assertUf2Fails(Str(resolvedFirmware))
       THEN { Outcome(Thrown(FirmwarePathMsg), files) }
     ELSE IF resolvedMount.thrown THEN { Outcome(resolvedMount, files) }
     ELSE IF assertUf2Fails(target)
       THEN { Outcome(Thrown(TargetFilenameMsg), files) }
     ELSE IF destination.thrown THEN { Outcome(destination, files) }
     ELSE ensureThenCopy(files, dirname(destination.val.s), resolvedFirmware,
                         destination.val.s)

entryNames_always(files, dir, listable) ==
  IF statOf(files, dir) /= "dir" THEN {}
  ELSE { basename(q) : q \in { q \in DOMAIN files : q /= dir /\ dirname(q) = dir } }

\* fs.readdir(dir).catch(() => []): the names of the entries of a directory,
\* none for what is no directory and none when the host refuses the listing
\* (listable is whether it grants it). The order of the names is the host's.
entryNames(files, dir, listable) ==
  IF statOf(files, dir) /= "dir" \/ ~ listable THEN {}
  ELSE { basename(q) : q \in { q \in DOMAIN files : q /= dir /\ dirname(q) = dir } }

\* The orders in which readdir may yield a set of names.
listingsOf(names) ==
  { o \in [1..Cardinality(names) -> names] :
      \A i, j \in 1..Cardinality(names) : i /= j => o[i] /= o[j] }

\* The loop of autoDetectFirmwareFile over a listing: the first entry whose
\* name ends in .uf2, or null.
RECURSIVE firstUf2(_)
firstUf2(entries) ==
  IF entries = <<>> THEN Null
  ELSE IF endsWith(toLowerCase(Head(entries)), X_uf2) THEN Str(Head(entries))
  ELSE firstUf2(Tail(entries))

\* autoDetectFirmwareFile(mountPoint): what it may return.
autoDetectFirmwareFile(files, mountPoint, listable) ==
  { firstUf2(o) : o \in listingsOf(entryNames(files, mountPoint, listable)) }

\* downloadFirmware after the source filename is known.
downloadNamed(files, cwd, resolvedMount, sourceFilename, destinationPath) ==
  LET source == resolveWithinMount("linux", cwd, resolvedMount, sourceFilename)
      resolvedDestination == pathResolve1(cwd, destinationPath)
  IN IF assertUf2Fails(sourceFilename)
       THEN { Outcome(Thrown(SourceFilenameMsg), files) }
     ELSE IF source.thrown THEN { Outcome(source, files) }
     ELSE IF statOf(files, source.val.s) /= "file"
       THEN { Outcome(Thrown(NotFoundOnDeviceMsg), files) }
     ELSE { Outcome(IF o.ret.thrown THEN o.ret
                    ELSE Returned([source |-> sourceFilename,
                                   destination |-> Str(resolvedDestination)]),
                    o.files) :
              o \in ensureThenCopy(files, dirname(resolvedDestination), source.val.s,
                                   resolvedDestination) }

\* downloadFirmware(mountPoint, destinationPath, { filename }); listable is
\* whether the host lets the mount root be listed.
downloadFirmware(files, cwd, mountPoint, destinationPath, filename, listable) ==
  LET resolvedMount == ensureMountPoint(files, cwd, mountPoint)
  IN IF resolvedMount.thrown THEN { Outcome(resolvedMount, files) }
     ELSE IF Truthy(filename)
       THEN downloadNamed(files, cwd, resolvedMount.val.s, filename, destinationPath)
     ELSE UNION { IF detected = Null THEN { Outcome(Thrown(NoUf2Msg), files) }
                  ELSE downloadNamed(files, cwd, resolvedMount.val.s, detected,
                                     destinationPath) :
                    detected \in autoDetectFirmwareFile(files, resolvedMount.val.s, listable) }

-----------------------------------------------------------------------------
(* The host of the firmware operations and the calls of uploadFirmware and
   downloadFirmware *)

\* The host side: firmware files whose names differ in case and extension, and
\* a directory whose name ends in .uf2.
FwHostEntries ==
  { <<P_root, DirNode>>, <<P_home, DirNode>>,
    <<<<"/","h","/","f",".","u","f","2">>, FileNode(1)>>,
    <<<<"/","h","/","F",".","U","F","2">>, FileNode(2)>>,
    <<<<"/","h","/","f",".","b","i","n">>, FileNode(3)>>,
    <<<<"/","h","/","d",".","u","f","2">>, DirNode>> }

\* The mount path holds nothing, a file, or a directory: empty, with one or
\* two firmware files, with another file, with a directory whose name ends in
\* .uf2, or with an entry at the name the upload writes.
FwMountTrees ==
  { {},
    { <<<<>>, FileNode(9)>> },
    { <<<<>>, DirNode>> },
    { <<<<>>, DirNode>>, <<<<"/","a",".","u","f","2">>, FileNode(5)>> },
    { <<<<>>, DirNode>>, <<<<"/","a",".","u","f","2">>, FileNode(5)>>,
      <<<<"/","B",".","U","F","2">>, FileNode(6)>> },
    { <<<<>>, DirNode>>, <<<<"/","x",".","b","i","n">>, FileNode(7)>> },
    { <<<<>>, DirNode>>, <<<<"/","x",".","b","i","n">>, FileNode(7)>>,
      <<<<"/","a",".","u","f","2">>, FileNode(5)>> },
    { <<<<>>, DirNode>>, <<<<"/","c",".","u","f","2">>, DirNode>> },
    { <<<<>>, DirNode>>, <<<<"/","c",".","u","f","2">>, DirNode>>,
      <<<<"/","a",".","u","f","2">>, FileNode(5)>> },
    { <<<<>>, DirNode>>, <<<<"/","t",".","u","f","2">>, FileNode(9)>> },
    { <<<<>>, DirNode>>, <<<<"/","t",".","u","f","2">>, DirNode>> } }

FwHosts == { FsOf(FwHostEntries \cup Below(P_mount, m)) : m \in FwMountTrees }

\* The firmware path as the caller writes it, relative to the working
\* directory /h: firmware files, a file of another extension, a missing file
\* and a directory.
FwSources ==
  { <<"f",".","u","f","2">>, <<"F",".","U","F","2">>, <<"f",".","b","i","n">>,
    <<"n",".","u","f","2">>, <<"n",".","b","i","n">>, <<"d",".","u","f","2">> }

\* The targetFilename option: absent, empty, firmware names, a name of another
\* extension, a nested name and a name that leaves the mount.
FwTargets ==
  { Undef, Str(<<>>), Str(<<"t",".","u","f","2">>), Str(<<"T",".","U","F","2">>),
    Str(<<"t",".","b","i","n">>), Str(<<"s","/","t",".","u","f","2">>),
    Str(<<".",".","/","x",".","u","f","2">>) }

\* The filename option of a download: absent, empty, a firmware file, a file
\* of another extension, a directory, a missing name.
FwFilenames ==
  { Undef, Str(<<>>), Str(<<"a",".","u","f","2">>), Str(<<"B",".","U","F","2">>),
    Str(<<"x",".","b","i","n">>), Str(<<"c",".","u","f","2">>),
    Str(<<"n",".","u","f","2">>) }

\* The destination of a download on the host, in /o, which does not exist yet.
FwDestinations ==
  { <<"/","o","/","g",".","u","f","2">>, <<"/","o","/","G",".","U","F","2">>,
    <<"/","o","/","g",".","b","i","n">>, <<"/","o","/","g">> }

FwMounts == { Str(P_mount), Str(<<>>) }

UploadArgs ==
  [op : {"uploadFirmware"}, cwd : {P_home}, firmwarePath : FwSources,
   mountPoint : FwMounts, targetFilename : FwTargets]

DownloadArgs ==
  [op : {"downloadFirmware"}, cwd : {P_home}, mountPoint : FwMounts,
   destinationPath : FwDestinations, filename : FwFilenames]

InitFw ==
  /\ pc = "call"
  /\ args \in UploadArgs \cup DownloadArgs
  /\ ret = Pending
  /\ serialPortModulePromise = "unset"
  /\ ports = [ok |-> TRUE, list |-> <<>>]
  /\ fs \in FwHosts
  /\ execaCalls = <<>>

\* uploadFirmware runs; the filesystem it found is kept with the arguments.
UploadFirmwareCall ==
  /\ pc = "call"
  /\ args.op = "uploadFirmware"
  /\ \E out \in uploadFirmware(fs, args.cwd, args.firmwarePath, args.mountPoint,
                               args.targetFilename) :
       /\ ret' = out.ret
       /\ fs' = out.files
  /\ args' = [op |-> "uploadFirmware", cwd |-> args.cwd,
              firmwarePath |-> args.firmwarePath, mountPoint |-> args.mountPoint,
              targetFilename |-> args.targetFilename, before |-> fs]
  /\ pc' = "done"
  /\ UNCHANGED <<serialPortModulePromise, ports, execaCalls>>

\* downloadFirmware runs; the filesystem it found is kept with the arguments,
\* and so is whether the host let the mount root be listed.
DownloadFirmwareCall ==
  /\ pc = "call"
  /\ args.op = "downloadFirmware"
  /\ \E listable \in BOOLEAN :
       /\ \E out \in downloadFirmware(fs, args.cwd, args.mountPoint,
                                      args.destinationPath, args.filename, listable) :
            /\ ret' = out.ret
            /\ fs' = out.files
       /\ args' = [op |-> "downloadFirmware", cwd |-> args.cwd,
                   mountPoint |-> args.mountPoint,
                   destinationPath |-> args.destinationPath,
                   filename |-> args.filename, before |-> fs,
                   listable |-> listable]
  /\ pc' = "done"
  /\ UNCHANGED <<serialPortModulePromise, ports, execaCalls>>

NextFw == UploadFirmwareCall \/ DownloadFirmwareCall

SpecFw == InitFw /\ [][NextFw]_vars

(* Claims about firmware.js *)

\* Whether a name ends in .uf2, whatever the case of its letters.
EndsUf2(s) ==
  /\ Len(s) >= 4
  /\ s[Len(s) - 3] = "."
  /\ s[Len(s) - 2] \in {"u", "U"}
  /\ s[Len(s) - 1] \in {"f", "F"}
  /\ s[Len(s)] = "2"

UploadDone == pc = "done" /\ args.op = "uploadFirmware"

DownloadDone == pc = "done" /\ args.op = "downloadFirmware"

\* The source path of an upload on the host, whose working directory is /h.
UploadSource == P_home \o <<Slash>> \o args.firmwarePath

\* The target filename: the explicit one, else the source's base name.
UploadTarget ==
  IF args.targetFilename.t = "string" /\ args.targetFilename.s /= <<>>
    THEN args.targetFilename.s
    ELSE args.firmwarePath

Rejected == ret.thrown /\ ret.msg /= "" /\ fs = args.before

\* C19: uploadFirmware rejects, with an error and without copying anything,
\* every call whose source path or whose target filename (the explicit one,
\* else the source's base name) does not end in .uf2 in any case of letters;
\* a source that is missing or no regular file is rejected with 'Firmware file
\* not found'; on success the returned destination is <mount>/<target
\* filename> and holds the source's bytes.
C19_UploadChecksNames ==
  UploadDone =>
    /\ (~ EndsUf2(UploadSource) \/ ~ EndsUf2(UploadTarget)) => Rejected
    /\ (UploadSource \notin DOMAIN args.before
          \/ args.before[UploadSource].kind /= "file")
         => Rejected /\ ret.msg = FirmwareNotFoundMsg
    /\ ~ ret.thrown =>
         /\ ret.val = Str(P_mount \o <<Slash>> \o UploadTarget)
         /\ ret.val.s \in DOMAIN fs
         /\ fs[ret.val.s] = args.before[UploadSource]

\* An upload of an existing firmware file to a mounted board under a target
\* name of another extension was rejected, and another upload succeeded over
\* a file the mount already held.
C19_Witness ==
  /\ UploadDone
  /\ EndsUf2(UploadSource)
  /\ UploadSource \in DOMAIN args.before
  /\ args.before[UploadSource].kind = "file"
  /\ args.mountPoint = Str(P_mount)
  /\ P_mount \in DOMAIN args.before
  /\ args.before[P_mount].kind = "dir"
  /\ ~ EndsUf2(UploadTarget)
  /\ ret.thrown

\* C20: downloadFirmware fails, before anything is copied, when the source
\* filename on the mount does not end in .uf2 and also when the destination
\* path on the host does not end in .uf2.
C20_BothNamesChecked ==
  DownloadDone =>
    /\ (args.filename \notin {Undef, Str(<<>>)} /\ ~ EndsUf2(args.filename.s)) => Rejected
    /\ ~ EndsUf2(args.destinationPath) => Rejected

\* The letters and signs of the names in use, in the order of their code
\* units.
CodeUnits == <<".", "2", "B", "F", "U", "a", "b", "c", "f", "i", "n", "t", "u", "x">>

CodeOf(ch) == CHOOSE k \in 1..Len(CodeUnits) : CodeUnits[k] = ch

\* Whether the name s precedes the name t in the order of the code units.
RECURSIVE Precedes(_, _)
Precedes(s, t) ==
  IF t = <<>> THEN FALSE
  ELSE IF s = <<>> THEN TRUE
  ELSE IF Head(s) = Head(t) THEN Precedes(Tail(s), Tail(t))
  ELSE CodeOf(Head(s)) < CodeOf(Head(t))

\* A download without a filename (absent or empty) from a mount point that is
\* a directory.
AutoDownloadDone ==
  /\ DownloadDone
  /\ args.filename \in {Undef, Str(<<>>)}
  /\ args.mountPoint = Str(P_mount)
  /\ P_mount \in DOMAIN args.before
  /\ args.before[P_mount].kind = "dir"

\* The names of the entries of the mount root that end in .uf2, as the host
\* lists them.
Uf2Entries ==
  IF args.listable
    THEN { q \in DOMAIN args.before :
             /\ Len(q) > Len(P_mount) + 1
             /\ SubSeq(q, 1, Len(P_mount) + 1) = P_mount \o <<Slash>>
             /\ \A k \in (Len(P_mount) + 2)..Len(q) : q[k] /= Slash
             /\ EndsUf2(q) }
    ELSE {}

NameOf(q) == SubSeq(q, Len(P_mount) + 2, Len(q))

\* C21: a download without a filename selects the lexicographically first of
\* the entries of the mount root whose name ends in .uf2, whatever the order
\* of the listing; it returns that name as source and copies that file to the
\* destination.
C21_LexicographicallyFirst ==
  (AutoDownloadDone /\ Uf2Entries /= {}) =>
    LET first == CHOOSE q \in Uf2Entries :
                   \A r \in Uf2Entries \ {q} : Precedes(NameOf(q), NameOf(r))
    IN /\ ~ ret.thrown
       /\ ret.val.source = Str(NameOf(first))
       /\ args.destinationPath \in DOMAIN fs
       /\ fs[args.destinationPath] = args.before[first]

\* C22: a download without a filename fails with 'No UF2 firmware file found
\* on the device' exactly when the mount root has no entry whose name ends in
\* .uf2, also when its listing cannot be read, and then the filesystem is as
\* it was.
C22_NoFirmwareFound ==
  AutoDownloadDone =>
    /\ (ret.thrown /\ ret.msg = NoUf2Msg) <=> Uf2Entries = {}
    /\ Uf2Entries = {} => fs = args.before

\* C22 witness: a download without a filename from a mount root that holds a
\* file of another extension only has failed so.
C22_Witness ==
  /\ AutoDownloadDone
  /\ args.listable
  /\ (P_mount \o <<"/","x",".","b","i","n">>) \in DOMAIN args.before
  /\ Uf2Entries = {}
  /\ ret.thrown

\* C29: a download without a filename succeeds whenever the mount root holds
\* a regular file whose name ends in .uf2, also when it holds a directory of
\* such a name.
C29_SucceedsWithAFirmwareFile ==
  (AutoDownloadDone /\ \E q \in Uf2Entries : args.before[q].kind = "file")
    => ~ ret.thrown

-----------------------------------------------------------------------------
(* Further claims about listDevices and findMountedBoards *)

\* What a call of listDevices returns in a process that made no call before,
\* against the host, the option and the listing of the call at hand.
FreshResult ==
  listDevices(loadSerialPort("unset", args.importable), ports, fs, args.listing,
              args.platform, args.searchRoots)

\* C23: listDevices is stateless across calls: a call returns what a first
\* call would return against the same host (ports, volumes, availability of
\* the serialport module) and the same searchRoots, whatever earlier calls
\* observed; a failure to load the module in one call does not affect a call
\* made after the module became loadable.
C23_StatelessAcrossCalls == DevDone => ret = FreshResult

\* The ports that report no vendor ID.
VendorlessPorts == { k \in 1..Len(ports.list) : ports.list[k].vendorId = Undef }

InResult(d) == \E i \in 1..Len(ret.val.devices) : ret.val.devices[i] = d

\* C25: every serial entry of the devices listDevices returns has a vendor ID
\* of the accepted set, so a port that reports no vendor ID is not among
\* them; every storage entry matches a hint pattern in its board ID, model or
\* info text; the devices dropped add nothing to errors.
C25_ResultIsClassified ==
  DevDone =>
    /\ \A i \in 1..Len(ret.val.devices) :
         LET d == ret.val.devices[i] IN
           /\ IsSerial(d) => d.vendorId = Str(S_2E8A)
           /\ IsStorage(d) =>
                \E v \in {d.boardId, d.model, d.infoFile} :
                  v.t = "string" /\ matchesStorageHint(v.s)
           /\ IsSerial(d) \/ IsStorage(d)
    /\ \A k \in VendorlessPorts : ~ InResult(serialDevice(ports.list[k]))
    /\ (~ SerialFailed /\ ~ StorageFailed) => ret.val.errors = <<>>

\* C25 witness: a port without vendor ID, which listSerialPorts returns, was
\* attached with a Pico, and the call returned the Pico alone and no error.
C25_Witness ==
  /\ DevDone
  /\ ~ SerialFailed
  /\ VendorlessPorts /= {}
  /\ \E k \in VendorlessPorts :
       \E i \in 1..Len(listSerialPorts("module", ports).val) :
         listSerialPorts("module", ports).val[i] = serialDevice(ports.list[k])
  /\ Len(ret.val.devices) = 1
  /\ ret.val.errors = <<>>

\* The roots of the call whose scan fails: directories whose listing raises
\* an error.
FailedRoots ==
  IF ScannedRoots.t /= "array" THEN {}
  ELSE { ScannedRoots.items[k] : k \in
           { k \in 1..Len(ScannedRoots.items) :
               /\ nodeAt(fs, ScannedRoots.items[k]).stat = "dir"
               /\ ~ nodeAt(fs, ScannedRoots.items[k]).list } }

\* The roots of the call whose scan does not fail, in order.
GoodRoots == SelectSeq(ScannedRoots.items, LAMBDA r : r \notin FailedRoots)

FoundDevices ==
  IF args.op = "findMountedBoards" THEN ret.val.items ELSE ret.val.devices

\* C26: a root whose scan fails is skipped: it contributes no device; the
\* boards under the other roots are all returned, in order, and listDevices
\* adds nothing to errors.
C26_FailedRootSkipped ==
  (ScanDone /\ ScannedRoots.t = "array") =>
    /\ \A i \in 1..Len(FoundDevices) :
         IsStorage(FoundDevices[i]) => FoundDevices[i].mountPoint.s \notin FailedRoots
    /\ args.op = "findMountedBoards" =>
         ret.val.items = dedupeById(scanRoots(fs, args.listing, GoodRoots))
    /\ args.op = "listDevices" =>
         \A i \in 1..Len(ret.val.errors) : ret.val.errors[i].source /= "storage"

-----------------------------------------------------------------------------
(* The depth of the storage scan: hosts with a volume two levels below a
   root, and the calls of findMountedBoards on them *)

PicoVolume == Node("dir", "text", T_pico, TRUE, TRUE)

P_user == pathJoin(RootMedia, <<"u">>)

P_deep == pathJoin(P_user, <<"v">>)

P_near == pathJoin(RootMnt, <<"b">>)

ScanPaths == { RootMedia, RootMnt, P_user, P_deep, P_near }

\* /media is missing, a directory or a volume; /media/u, the directory of a
\* user, is missing, a directory or a volume; /media/u/v and /mnt/b are
\* missing or volumes. What is below a missing directory is missing.
ScanHosts ==
  { h \in [ScanPaths -> {NoNode, PlainDir, PicoVolume}] :
      /\ h[RootMnt] /= NoNode
      /\ h[P_deep] /= PlainDir
      /\ h[P_near] /= PlainDir
      /\ h[RootMedia] = NoNode => h[P_user] = NoNode
      /\ h[P_user] = NoNode => h[P_deep] = NoNode }

\* The order in which the host lists the entry names.
ScanListing == << <<"u">>, <<"v">>, <<"b">> >>

\* The searchRoots argument: absent, or a list of roots, one of them with the
\* directory of the user as a root.
ScanRootLists ==
  { Undef, Arr(<<RootMedia>>), Arr(<<P_user>>), Arr(<<RootMnt, RootMedia>>),
    Arr(<<RootMedia, P_user>>) }

InitScan ==
  /\ pc = "call"
  /\ args \in [op : {"findMountedBoards"}, platform : {"linux"},
               searchRoots : ScanRootLists]
  /\ ret = Pending
  /\ serialPortModulePromise = "unset"
  /\ ports = [ok |-> TRUE, list |-> <<>>]
  /\ fs \in ScanHosts
  /\ execaCalls = <<>>

\* A call of the exported findMountedBoards.
ScanRootsCall ==
  /\ pc = "call"
  /\ args.op = "findMountedBoards"
  /\ ret' = LET r == findMountedBoards(fs, ScanListing,
                                       rootsParam(args.searchRoots, args.platform))
             IN IF r.thrown THEN r ELSE Returned(Arr(r.val))
  /\ pc' = "done"
  /\ UNCHANGED <<args, serialPortModulePromise, ports, fs, execaCalls>>

NextScan == ScanRootsCall

SpecScan == InitScan /\ [][NextScan]_vars

(* Claims about the depth of the scan *)

DepthDone == pc = "done" /\ args.op = "findMountedBoards" /\ fs \in ScanHosts

\* The search roots of the call.
DepthRoots ==
  IF args.searchRoots = Undef
    THEN { <<"/","m","e","d","i","a">>, <<"/","r","u","n","/","m","e","d","i","a">>,
           <<"/","m","n","t">> }
    ELSE { args.searchRoots.items[k] : k \in 1..Len(args.searchRoots.items) }

\* The path of the directory that holds p: p without its last segment.
ParentOf(p) ==
  LET cut == CHOOSE k \in 1..Len(p) : p[k] = Slash /\ \A m \in (k + 1)..Len(p) : p[m] /= Slash
  IN IF cut = 1 THEN <<Slash>> ELSE SubSeq(p, 1, cut - 1)

Reported(p) ==
  \E i \in 1..Len(ret.val.items) : ret.val.items[i].mountPoint = Str(p)

\* C27: every storage device findMountedBoards returns is mounted on a search
\* root or on an immediate child of one; a volume two levels below every
\* search root is not reported, and is reported when its parent is itself a
\* search root.
C27_ScanDepth ==
  DepthDone =>
    /\ \A i \in 1..Len(ret.val.items) :
         LET p == ret.val.items[i].mountPoint.s
         IN p \in DepthRoots \/ ParentOf(p) \in DepthRoots
    /\ (P_deep \notin DepthRoots /\ P_user \notin DepthRoots) => ~ Reported(P_deep)
    /\ (fs[P_deep] = PicoVolume /\ P_user \in DepthRoots) => Reported(P_deep)

\* C27 witness: a Pico volume is mounted at /media/u/v, /media is a search
\* root and /media/u is none, and the call returned without that volume.
C27_Witness ==
  /\ DepthDone
  /\ fs[P_deep] = PicoVolume
  /\ RootMedia \in DepthRoots
  /\ P_user \notin DepthRoots
  /\ ~ ret.thrown
  /\ ~ Reported(P_deep)

-----------------------------------------------------------------------------
(* The four transfers side by side: copyToDevice, copyFromDevice,
   uploadFirmware and downloadFirmware, each called once on a host *)

\* The sourcePath of a copy from the device: entries the mount may hold, a
\* nested one, a missing one, the mount itself and a path that leaves it.
DeviceSources ==
  { Str(<<"p">>), Str(<<"d">>), Str(<<"p","/","a">>), Str(<<"n">>), Str(Dot),
    Str(<<".",".","/","x">>) }

\* The destination of a copy from the device: a path in /o, which does not
\* exist yet, and a path in the home directory.
HostDestinations == { P_out \o <<"/","g">>, P_home \o <<"/","g">> }

CopyFromArgs ==
  [op : {"copyFromDevice"}, cwd : {P_root}, mountPoint : CopyMounts,
   sourcePath : DeviceSources, destination : HostDestinations]

InitTransfer ==
  /\ pc = "call"
  /\ \/ args \in CopyArgs \cup CopyFromArgs /\ fs \in CopyHosts
     \/ args \in UploadArgs \cup DownloadArgs /\ fs \in FwHosts
  /\ ret = Pending
  /\ serialPortModulePromise = "unset"
  /\ ports = [ok |-> TRUE, list |-> <<>>]
  /\ execaCalls = <<>>

\* copyFromDevice runs; the filesystem it found is kept with the arguments.
CopyFromDeviceDirect ==
  /\ pc = "call"
  /\ args.op = "copyFromDevice"
  /\ \E out \in copyFromDevice(fs, args.cwd, args.mountPoint, args.sourcePath,
                               args.destination) :
       /\ ret' = out.ret
       /\ fs' = out.files
  /\ args' = [op |-> "copyFromDevice", cwd |-> args.cwd,
              mountPoint |-> args.mountPoint, sourcePath |-> args.sourcePath,
              destination |-> args.destination, before |-> fs]
  /\ pc' = "done"
  /\ UNCHANGED <<serialPortModulePromise, ports, execaCalls>>

NextTransfer ==
  \/ CopyToDeviceCall
  \/ CopyFromDeviceDirect
  \/ UploadFirmwareCall
  \/ DownloadFirmwareCall

SpecTransfer == InitTransfer /\ [][NextTransfer]_vars

(* Claims about the transfers *)

TransferDone ==
  /\ pc \in {"copied", "done"}
  /\ args.op \in {"copyToDevice", "copyFromDevice", "uploadFirmware", "downloadFirmware"}

\* The errors of the checks: of the mount point, of the source, of the
\* extension, of the path within the mount, of the firmware file found.
CheckMessages ==
  { "A mount point is required.", "Mount point not found or not a directory",
    "Source path does not exist", "Source path on device does not exist",
    "escapes the mount point",
    "Firmware path must reference a .uf2 file.",
    "Target filename must reference a .uf2 file.",
    "Source filename must reference a .uf2 file.",
    "Firmware file not found", "Firmware file not found on device",
    "No UF2 firmware file found on the device. Specify --filename to pick one explicitly." }

\* The errors of the checks that do not look at the mount.
HostSideMessages ==
  { "Firmware file not found", "Firmware path must reference a .uf2 file." }

\* The mount point of the call as a path of the host, and whether it is a
\* directory there.
MountPath ==
  LET m == args.mountPoint.s
  IN IF m[1] = Slash THEN m
     ELSE IF args.cwd = <<Slash>> THEN args.cwd \o m
     ELSE args.cwd \o <<Slash>> \o m

MountValid ==
  /\ args.mountPoint.s /= <<>>
  /\ MountPath \in DOMAIN args.before
  /\ args.before[MountPath].kind = "dir"

\* C28: a transfer that fails one of its checks fails before it creates a
\* directory or copies a file: the filesystem, mount and host, is as it was;
\* and the mount point is validated before any path is resolved against it:
\* with a mount point that is missing or no directory the call fails on the
\* mount point, or on a check that does not look at the mount.
C28_ValidationPrecedesWrites ==
  TransferDone =>
    /\ (ret.thrown /\ ret.msg \in CheckMessages) => fs = args.before
    /\ ~ MountValid =>
         /\ ret.thrown
         /\ fs = args.before
         /\ ret.msg \in { "A mount point is required.",
                          "Mount point not found or not a directory" }
                          \cup (IF args.op = "uploadFirmware" THEN HostSideMessages ELSE {})

\* C28 witness: a copy from a mounted device of a source that is not there
\* has failed, and the destination's directory was not made.
C28_Witness ==
  /\ TransferDone
  /\ args.op = "copyFromDevice"
  /\ MountValid
  /\ ret.thrown
  /\ ret.msg = "Source path on device does not exist"
  /\ args.destination = P_out \o <<"/","g">>
  /\ P_out \notin DOMAIN fs

-----------------------------------------------------------------------------
(* The MicroPython wrapper: ensureSerialPath, formatRemotePath, runMpremote,
   uploadToMicropython, downloadFromMicropython *)

True == [t |-> "true"]

SerialRequiredMsg ==
  "A serial port path is required to communicate with a MicroPython device."

RemoteRequiredMsg == "A remote path on the MicroPython device is required."

MpremoteMissingMsg == "mpremote is not installed or not available on the PATH."

EnsureDirFailedMsg == "fs-extra: ensureDir failed"

\* ensureSerialPath(serialPath)
ensureSerialPath(serialPath) ==
  IF ~ Truthy(serialPath) \/ serialPath.t /= "string"
    THEN Thrown(Error(SerialRequiredMsg))
    ELSE Returned(serialPath)

formatRemotePath_always(remotePath) ==
  IF ~ Truthy(remotePath) \/ remotePath.t /= "string"
    THEN Thrown(Error(RemoteRequiredMsg))
  ELSE Returned(Str(<<Colon>> \o remotePath.s))

\* formatRemotePath(remotePath)
formatRemotePath(remotePath) ==
  IF ~ Truthy(remotePath) \/ remotePath.t /= "string"
    THEN Thrown(Error(RemoteRequiredMsg))
  ELSE IF startsWith(remotePath.s, <<Colon>>) THEN Returned(remotePath)
  ELSE Returned(Str(<<Colon>> \o remotePath.s))

\* The call runMpremote makes without the stdio option, and what it makes of
\* the outcome of execa.
mpremoteCall(arguments, options) ==
  ExecaCall(IF Truthy(options.mpremotePath) THEN options.mpremotePath ELSE Lit("mpremote"),
            arguments, [timeout |-> options.timeout])

runMpremote(outcome) ==
  IF ~ outcome.rejected THEN Returned(Str(trim(outcome.stdout)))
  ELSE IF outcome.error.code = Str(<<"E","N","O","E","N","T">>)
    THEN Thrown(Error(MpremoteMissingMsg))
  ELSE Thrown(outcome.error)

\* buildConnectionArgs(serialPath), once ensureSerialPath has passed.
buildConnectionArgs(serialPath) == <<Lit("connect"), serialPath>>

MpyResult(result, calls, files) == [ret |-> result, calls |-> calls, files |-> files]

\* uploadToMicropython(serialPath, source, target, options)
uploadToMicropython(files, cwd, serialPath, source, target, options, outcome) ==
  LET resolvedSource == pathResolve1(cwd, source)
      stats == statOf(files, resolvedSource)
      remoteTarget == formatRemotePath(target)
      connection == ensureSerialPath(serialPath)
      arguments ==
        buildConnectionArgs(serialPath) \o <<Lit("fs"), Lit("cp")>>
          \o (IF stats = "dir" THEN <<Lit("-r")>> ELSE <<>>)
          \o <<Str(resolvedSource), remoteTarget.val>>
      ran == runMpremote(outcome)
  IN IF stats = "none" THEN MpyResult(Thrown(Error(SourceMissingMsg)), <<>>, files)
     ELSE IF remoteTarget.thrown THEN MpyResult(remoteTarget, <<>>, files)
     ELSE IF connection.thrown THEN MpyResult(connection, <<>>, files)
     ELSE MpyResult(IF ran.thrown THEN ran
                    ELSE Returned([source |-> Str(resolvedSource),
                                   target |-> remoteTarget.val]),
                    <<mpremoteCall(arguments, options)>>, files)

\* downloadFromMicropython(serialPath, remotePath, destination, options)
downloadFromMicropython(files, cwd, serialPath, remotePath, destination, options, outcome) ==
  LET remoteSource == formatRemotePath(remotePath)
      resolvedDestination == pathResolve1(cwd, destination)
      remoteBasename ==
        basename(IF startsWith(remoteSource.val.s, <<Colon>>)
                   THEN Tail(remoteSource.val.s) ELSE remoteSource.val.s)
      isDirectory == statOf(files, resolvedDestination) = "dir"
      finalDestination ==
        IF isDirectory THEN pathJoin(resolvedDestination, remoteBasename)
        ELSE resolvedDestination
      first == IF isDirectory THEN FsResult(TRUE, files)
               ELSE ensureDir(files, dirname(resolvedDestination))
      second == ensureDir(first.files, dirname(finalDestination))
      connection == ensureSerialPath(serialPath)
      arguments ==
        buildConnectionArgs(serialPath) \o <<Lit("fs"), Lit("cp")>>
          \o (IF Truthy(options.recursive) THEN <<Lit("-r")>> ELSE <<>>)
          \o <<remoteSource.val, Str(finalDestination)>>
      ran == runMpremote(outcome)
  IN IF remoteSource.thrown THEN MpyResult(remoteSource, <<>>, files)
     ELSE IF ~ first.ok THEN MpyResult(Thrown(Error(EnsureDirFailedMsg)), <<>>, files)
     ELSE IF ~ second.ok
       THEN MpyResult(Thrown(Error(EnsureDirFailedMsg)), <<>>, first.files)
     ELSE IF connection.thrown THEN MpyResult(connection, <<>>, second.files)
     ELSE MpyResult(IF ran.thrown THEN ran
                    ELSE Returned([source |-> remoteSource.val,
                                   destination |-> Str(finalDestination)]),
                    <<mpremoteCall(arguments, options)>>, second.files)

(* The host of the MicroPython calls *)

\* The home directory holds a script, a directory with a module, and may hold
\* a directory for downloads.
MpyHosts ==
  { FsOf({ <<P_root, DirNode>>, <<P_home, DirNode>>,
           <<P_home \o <<"/","m",".","p","y">>, FileNode(1)>>,
           <<P_home \o <<"/","l">>, DirNode>>,
           <<P_home \o <<"/","l","/","x">>, FileNode(2)>> } \cup extra) :
      extra \in { {}, { <<P_home \o <<"/","g">>, DirNode>> } } }

\* The serial path: a port, an empty path, none, and a number.
MpySerialPaths == { Str(<<"/","t","0">>), Str(<<>>), Undef, Num(5) }

\* The remote path: written with and without the leading colon, nested, and
\* missing.
MpyRemotePaths ==
  { Str(<<"/","m",".","p","y">>), Str(<<":","/","m",".","p","y">>),
    Str(<<"l","/","x">>), Str(<<":","b">>), Str(<<>>), Undef }

\* The source of an upload: a file, a directory, a missing path.
MpySources == { <<"m",".","p","y">>, <<"l">>, <<"n">> }

\* The destination of a download: a new path in a directory to be made, an
\* existing directory, an existing file, a path below a file, and the
\* directory for downloads.
MpyDestinations ==
  { <<"/","o","/","y">>, <<"l">>, <<"m",".","p","y">>, <<"m",".","p","y","/","y">>,
    <<"g">> }

MpyOptions ==
  [recursive : {Undef, True, False}, timeout : {Undef, Num(5000)},
   mpremotePath : {Undef}]

MpyArgs ==
  [op : {"uploadToMicropython"}, cwd : {P_home}, serialPath : MpySerialPaths,
   source : MpySources, target : MpyRemotePaths,
   options : { o \in MpyOptions : o.recursive = Undef }]
    \cup
  [op : {"downloadFromMicropython"}, cwd : {P_home}, serialPath : MpySerialPaths,
   remotePath : MpyRemotePaths, destination : MpyDestinations,
   options : { o \in MpyOptions : o.timeout = Undef }]

InitMpy ==
  /\ pc = "call"
  /\ args \in MpyArgs
  /\ ret = Pending
  /\ serialPortModulePromise = "unset"
  /\ ports = [ok |-> TRUE, list |-> <<>>]
  /\ fs \in MpyHosts
  /\ execaCalls = <<>>

\* The outcomes of mpremote: its output, or a rejection of execa.
MpyOutcomes ==
  { ExecaResolved(<<>>) } \cup { ExecaRejected(e) : e \in ExecaErrors }

UploadToMicropythonCall ==
  /\ pc = "call"
  /\ args.op = "uploadToMicropython"
  /\ \E outcome \in MpyOutcomes :
       LET r == uploadToMicropython(fs, args.cwd, args.serialPath, args.source,
                                    args.target, args.options, outcome)
       IN /\ r.calls = <<>> => outcome = ExecaResolved(<<>>)
          /\ ret' = r.ret
          /\ execaCalls' = r.calls
          /\ fs' = r.files
  /\ args' = [op |-> args.op, cwd |-> args.cwd, serialPath |-> args.serialPath,
              source |-> args.source, target |-> args.target,
              options |-> args.options, before |-> fs]
  /\ pc' = "done"
  /\ UNCHANGED <<serialPortModulePromise, ports>>

DownloadFromMicropythonCall ==
  /\ pc = "call"
  /\ args.op = "downloadFromMicropython"
  /\ \E outcome \in MpyOutcomes :
       LET r == downloadFromMicropython(fs, args.cwd, args.serialPath, args.remotePath,
                                        args.destination, args.options, outcome)
       IN /\ r.calls = <<>> => outcome = ExecaResolved(<<>>)
          /\ ret' = r.ret
          /\ execaCalls' = r.calls
          /\ fs' = r.files
  /\ args' = [op |-> args.op, cwd |-> args.cwd, serialPath |-> args.serialPath,
              remotePath |-> args.remotePath, destination |-> args.destination,
              options |-> args.options, before |-> fs]
  /\ pc' = "done"
  /\ UNCHANGED <<serialPortModulePromise, ports>>

NextMpy == UploadToMicropythonCall \/ DownloadFromMicropythonCall

SpecMpy == InitMpy /\ [][NextMpy]_vars

(* Claims about the MicroPython wrapper *)

MpyDone == pc = "done" /\ args.op \in {"uploadToMicropython", "downloadFromMicropython"}

IsUpload == args.op = "uploadToMicropython"

\* Whether a path was given: a string that is not empty.
PathGiven(v) == v.t = "string" /\ v.s /= <<>>

\* The remote path the caller wrote.
WrittenRemote == IF IsUpload THEN args.target ELSE args.remotePath

\* The remote path with one leading colon.
OneColon(s) == IF s[1] = ":" THEN s ELSE <<":">> \o s

\* The part of a path after its last slash, the whole path when it has none.
LastName(s) ==
  IF \E k \in 1..Len(s) : s[k] = Slash
    THEN LET cut == CHOOSE k \in 1..Len(s) :
                      s[k] = Slash /\ \A m \in (k + 1)..Len(s) : s[m] /= Slash
         IN SubSeq(s, cut + 1, Len(s))
    ELSE s

\* A path of the caller as a path of the host, whose working directory is /h.
HostPath(p) == IF p[1] = Slash THEN p ELSE P_home \o <<Slash>> \o p

\* The local destination of a download.
LocalDestination ==
  LET d == HostPath(args.destination)
  IN IF d \in DOMAIN args.before /\ args.before[d].kind = "dir"
       THEN d \o <<Slash>> \o LastName(Tail(OneColon(WrittenRemote.s)))
       ELSE d

\* Whether '-r' is to be passed.
Recursively ==
  IF IsUpload THEN args.before[HostPath(args.source)].kind = "dir"
  ELSE args.options.recursive = True

\* C24: mpremote is run with connect, the serial path, fs, cp, then -r
\* exactly when the upload source is a directory or the recursive option of a
\* download is set, then source and target; the remote path has one leading
\* colon whether or not the caller wrote it; the local destination of a
\* download is <destination>/<remote base name> when the destination is an
\* existing directory, else the destination; mpremote is not started when
\* the serial path or the remote path is missing.
C24_MpremoteCommand ==
  MpyDone =>
    /\ Len(execaCalls) <= 1
    /\ (~ PathGiven(args.serialPath) \/ ~ PathGiven(WrittenRemote)) => execaCalls = <<>>
    /\ ~ ret.thrown => Len(execaCalls) = 1
    /\ Len(execaCalls) = 1 =>
         /\ execaCalls[1].file = Lit("mpremote")
         /\ execaCalls[1].args =
              <<Lit("connect"), args.serialPath, Lit("fs"), Lit("cp")>>
                \o (IF Recursively THEN <<Lit("-r")>> ELSE <<>>)
                \o (IF IsUpload
                      THEN <<Str(HostPath(args.source)), Str(OneColon(WrittenRemote.s))>>
                      ELSE <<Str(OneColon(WrittenRemote.s)), Str(LocalDestination)>>)

\* C24 witness: a recursive download of a remote path written without colon
\* into an existing directory has run mpremote.
C24_Witness ==
  /\ MpyDone
  /\ ~ IsUpload
  /\ args.remotePath = Str(<<"l","/","x">>)
  /\ args.destination = <<"g">>
  /\ HostPath(args.destination) \in DOMAIN args.before
  /\ args.options.recursive = True
  /\ Len(execaCalls) = 1
  /\ Len(execaCalls[1].args) = 7
  /\ ~ ret.thrown

-----------------------------------------------------------------------------
(* cli.js: the action of the put-fs command *)

\* The options of the command as commander hands them over: the values of
\* --serial, --bus, --address, --drive and --picotool are strings, that of
\* --timeout is a number; each may be absent.
CliOptions ==
  [ serial : {Undef, Str(<<"S","1">>), Str(<<>>)},
    bus : {Undef, Str(<<"0">>), Str(<<"1">>)},
    address : {Undef, Str(<<"2">>)},
    drive : {Undef, Str(<<"E",":">>)},
    picotool : {Undef, Str(S_custom)},
    timeout : {Undef, Num(5000)} ]

\* What getSingleDevice({ type: 'serial' }) resolves to: an error, a device
\* with a serial number, a device without one, or neither.
SingleDevice(serialNumber) ==
  [t |-> "object", path |-> Str(<<"t","0">>), serialNumber |-> serialNumber]

SingleDeviceResults ==
  { [device |-> Null, error |-> Str(<<"n","o","n","e">>)],
    [device |-> SingleDevice(Str(<<"S","9">>)), error |-> Undef],
    [device |-> SingleDevice(Undef), error |-> Undef],
    [device |-> Null, error |-> Undef] }

NotRun == [device |-> Undef, error |-> Undef, run |-> FALSE]

\* cli.js:119
noTargetSpecified(options) ==
  /\ ~ Truthy(options.serial)
  /\ options.bus = Undef
  /\ options.address = Undef
  /\ ~ Truthy(options.drive)

selectedSerial_ignore(options, selection) == options.serial

\* The serial number after the auto-selection (cli.js:116, :125-126).
selectedSerial(options, selection) ==
  IF selection /= NotRun /\ Truthy(selection.device)
       /\ Truthy(selection.device.serialNumber)
    THEN selection.device.serialNumber
    ELSE options.serial

\* The options handed to putDeviceInFsMode (cli.js:131-138).
helperOptions(options, selection) ==
  [ serialNumber |-> selectedSerial(options, selection),
    bus |-> options.bus,
    address |-> options.address,
    drive |-> options.drive,
    picotoolPath |-> options.picotool,
    timeout |-> options.timeout ]

\* process.exitCode after the action: 1 once the catch block ran.
ExitCode(failed) == Returned([t |-> "exit", exitCode |-> IF failed THEN Num(1) ELSE Undef])

InitCli ==
  /\ pc = "call"
  /\ args \in [op : {"put-fs"}, options : CliOptions, selection : {NotRun}]
  /\ ret = Pending
  /\ serialPortModulePromise = "unset"
  /\ ports = [ok |-> TRUE, list |-> <<>>]
  /\ fs \in ToolHosts
  /\ execaCalls = <<>>

\* The action up to the end of the auto-selection (cli.js:116-129): it runs
\* when no target is specified, and an error it reports ends the action in
\* the catch block.
AutoSelect ==
  /\ pc = "call"
  /\ args.op = "put-fs"
  /\ noTargetSpecified(args.options)
  /\ \E selection \in SingleDeviceResults :
       /\ args' = [args EXCEPT !.selection = selection]
       /\ IF Truthy(selection.error)
            THEN pc' = "done" /\ ret' = ExitCode(TRUE)
            ELSE pc' = "selected" /\ ret' = ret
  /\ UNCHANGED <<serialPortModulePromise, ports, fs, execaCalls>>

\* The rest of the action: putDeviceInFsMode is awaited (cli.js:131-146).
InvokeHelper ==
  /\ args.op = "put-fs"
  /\ \/ pc = "call" /\ ~ noTargetSpecified(args.options)
     \/ pc = "selected"
  /\ LET options == helperOptions(args.options, args.selection)
     IN \E outcome \in ToolOutcomes(~ resolveExecutable(fs, options.picotoolPath).thrown) :
          LET r == putDeviceInFsMode(fs, options, outcome)
          IN /\ execaCalls' = execaCalls \o r.calls
             /\ ret' = ExitCode(r.ret.thrown)
  /\ pc' = "done"
  /\ UNCHANGED <<args, serialPortModulePromise, ports, fs>>

NextCli == AutoSelect \/ InvokeHelper

SpecCli == InitCli /\ [][NextCli]_vars

(* Claims about the put-fs command *)

CliRun == args.op = "put-fs"

\* Whether an option was given: with a value that is not empty.
OptionGiven(v) == v /= Undef /\ v /= Str(<<>>)

NoTargetGiven ==
  \A name \in {"serial", "bus", "address", "drive"} : ~ OptionGiven(args.options[name])

\* The flags of the options given, in order.
GivenFlags ==
  (IF OptionGiven(args.options.serial)
     THEN <<Lit("--serial"), args.options.serial>> ELSE <<>>)
    \o (IF OptionGiven(args.options.bus)
          THEN <<Lit("--bus"), args.options.bus>> ELSE <<>>)
    \o (IF OptionGiven(args.options.address)
          THEN <<Lit("--address"), args.options.address>> ELSE <<>>)
    \o (IF OptionGiven(args.options.drive)
          THEN <<Lit("--drive"), args.options.drive>> ELSE <<>>)

Selected == args.selection /= NotRun

\* C30: with no targeting option given the auto-selection runs before the
\* helper is invoked; when it reports an error the helper is never invoked
\* and the exit code is 1; when it yields a device with a serial number, that
\* number is passed as --serial. With a targeting option given the
\* auto-selection is not performed and the options are passed unchanged.
C30_PutFsOrdering ==
  CliRun =>
    /\ pc = "selected" => execaCalls = <<>>
    /\ (NoTargetGiven /\ execaCalls /= <<>>) => Selected
    /\ (NoTargetGiven /\ pc = "done") => Selected
    /\ (Selected /\ args.selection.error /= Undef) =>
         /\ execaCalls = <<>>
         /\ pc = "done"
         /\ ret.val.exitCode = Num(1)
    /\ (Selected /\ execaCalls /= <<>> /\ args.selection.device /= Null
          /\ args.selection.device.serialNumber /= Undef) =>
         execaCalls[1].args =
           <<Lit("reboot"), Lit("-f"), Lit("--serial"), args.selection.device.serialNumber>>
    /\ ~ NoTargetGiven =>
         /\ ~ Selected
         /\ execaCalls /= <<>> =>
              execaCalls[1].args = <<Lit("reboot"), Lit("-f")>> \o GivenFlags

\* C30 witness: no target was given, the auto-selection yielded a device with
\* a serial number, and the helper was then run with it.
C30_Witness ==
  /\ CliRun
  /\ pc = "done"
  /\ NoTargetGiven
  /\ Selected
  /\ args.selection.device /= Null
  /\ args.selection.device.serialNumber = Str(<<"S","9">>)
  /\ Len(execaCalls) = 1
  /\ execaCalls[1].args[4] = Str(<<"S","9">>)

====
